---- MODULE Spec2Model ----
(***************************************************************************)
(* A model of the editor core: Document (document.rs), SelectionSet        *)
(* (selection.rs), History (history.rs), Buffer (buffer.rs), the search    *)
(* helpers (search.rs) and EditorEngine (engine.rs), and of the workspace  *)
(* settings (workspace/settings.rs) and the event bridge (app/events.rs).  *)
(*                                                                         *)
(* A text is a sequence of characters; a character is a one-element token  *)
(* ("a", " ", "\n", ...).  Character indices are 0-based as in the source, *)
(* so the character at index i is text[i + 1].                             *)
(***************************************************************************)
EXTENDS Integers, Sequences, FiniteSets, TLC

VARIABLES
    text,               \* Buffer.doc.rope, as a sequence of characters
    version,            \* Buffer.doc.version: a u64, as four 16-bit limbs
    sels,               \* Buffer.selections: <<primary>> \o secondary
    undo,               \* Buffer.history.undo
    redo,               \* Buffer.history.redo
    impact,             \* Buffer.last_edit_impact
    clipboard,          \* the caller's clipboard string (in-out argument)
    cache,              \* EditorEngine.line_cache: line index -> cached text
    cachedVersion,      \* EditorEngine.cached_doc_version
    cachedLineCount,    \* EditorEngine.cached_line_count
    snap,               \* the DocumentSnapshot the caller holds, if any
    lastMatch,          \* the SearchMatch the caller holds, if any
    viewport,           \* EditorEngine.viewport
    softWrap,           \* EditorEngine.layout.soft_wrap
    highlighter,        \* EditorEngine.highlighter: None, or the language
                        \* it is configured for
    vm,                 \* the EditorViewModel returned by the last view_model()
    panicked,           \* a call of the last operation panicked
    recent_files,       \* WorkspaceSettings.recent_files
    addedPaths,         \* the paths passed to add_recent_file so far
    channel,            \* the events in the channel of the event bridge
    throttle,           \* EventReceiver.throttle_state
    now,                \* Instant::now(), in milliseconds
    delivered,          \* the events recv / try_recv returned, with the time
    sentCount,          \* number of events sent so far
    op,                 \* the last operation
    args,               \* the arguments of the last operation, where recorded
    ret,                \* the value the last operation returned
    rec,                \* what the last operation did to the undo stack
    pre,                \* before the last operation: the document text, the
                        \* selections, the lengths of the two history
                        \* stacks, the burst and the line cache
    burst,              \* the run of one-character inserts in progress
    sinceRestore,       \* buffer.restore was called and view_model has not
                        \* been called since
    budget              \* number of operations the caller still performs

(* the state outside the editor engine *)
appVars == <<recent_files, addedPaths, channel, throttle, now, delivered,
            sentCount>>

vars == <<text, version, sels, undo, redo, impact, clipboard, cache,
          cachedVersion, cachedLineCount, snap, lastMatch, viewport, softWrap,
          highlighter, vm, panicked, recent_files, addedPaths,
          channel, throttle, now, delivered, sentCount,
          op, args, ret, rec, pre, burst, sinceRestore, budget>>

----------------------------------------------------------------------------
(* Bounds of the model.                                                    *)

MaxSteps == 2
MaxEditSteps == 3
MaxViewSteps == 5
MaxTypingSteps == 4
MaxReplaceSteps == 2
MaxDocCalls == 2
MaxLen == 10
MaxRecentCalls == 22
MaxReadds == 2
MaxBridgeSteps == 6
BufferSize == 4

----------------------------------------------------------------------------
(* Generic helpers.                                                        *)

Min(a, b) == IF a <= b THEN a ELSE b
Max(a, b) == IF a >= b THEN a ELSE b
SatSub(a, b) == IF a >= b THEN a - b ELSE 0

None == [none |-> TRUE]

RECURSIVE ConcatAll(_)
ConcatAll(ss) == IF ss = <<>> THEN <<>> ELSE Head(ss) \o ConcatAll(Tail(ss))

(* s[a..b) with 0-based, end-exclusive character indices.                  *)
Slice(s, a, b) == SubSeq(s, a + 1, b)

EndsWith(s, suffix) ==
    /\ Len(s) >= Len(suffix)
    /\ Slice(s, Len(s) - Len(suffix), Len(s)) = suffix

----------------------------------------------------------------------------
(* u64 arithmetic on four 16-bit limbs, least significant first.           *)

LimbBase == 65536
Zero64 == <<0, 0, 0, 0>>
Max64 == <<LimbBase - 1, LimbBase - 1, LimbBase - 1, LimbBase - 1>>

RECURSIVE WrappingAdd1From(_, _)
WrappingAdd1From(v, i) ==
    IF i > Len(v) THEN v
    ELSE IF v[i] = LimbBase - 1
         THEN WrappingAdd1From([v EXCEPT ![i] = 0], i + 1)
         ELSE [v EXCEPT ![i] = v[i] + 1]

(* u64::wrapping_add(1) *)
WrappingAdd1(v) == WrappingAdd1From(v, 1)

RECURSIVE Less64From(_, _, _)
Less64From(a, b, i) ==
    IF i = 0 THEN FALSE
    ELSE IF a[i] # b[i] THEN a[i] < b[i]
    ELSE Less64From(a, b, i - 1)

Less64(a, b) == Less64From(a, b, Len(a))

----------------------------------------------------------------------------
(* Characters.                                                             *)

NL == "\n"
SP == " "

IsWhitespace(c) == c \in {SP, NL}
IsAlphanumeric(c) == c \in {"a", "b", "A", "e2"}
IsWordChar(c) == IsAlphanumeric(c) \/ c = "_"

(* The UTF-8 encoding of a character; "e2" stands for U+00E9, which takes  *)
(* two bytes.                                                              *)
Utf8(c) ==
    CASE c = "a" -> <<97>>
      [] c = "b" -> <<98>>
      [] c = "A" -> <<65>>
      [] c = "_" -> <<95>>
      [] c = SP -> <<32>>
      [] c = NL -> <<10>>
      [] c = "/" -> <<47>>
      [] c = "e2" -> <<195, 169>>

RECURSIVE Utf8Str(_)
Utf8Str(s) == IF s = <<>> THEN <<>> ELSE Utf8(Head(s)) \o Utf8Str(Tail(s))

(* char::to_lowercase, per character *)
LowerChar(c) == IF c = "A" THEN "a" ELSE c

ToLowercase(s) == [i \in 1..Len(s) |-> LowerChar(s[i])]

----------------------------------------------------------------------------
(* Document (document.rs).  The rope is the sequence `text`; ropey's       *)
(* char_to_line, line_to_char, insert and remove panic on an index past    *)
(* the end, which the *Panics predicates state.                            *)

CountNewlines(t, n) == Cardinality({i \in 1..Min(n, Len(t)) : t[i] = NL})

LenChars(t) == Len(t)
LenLines(t) == CountNewlines(t, Len(t)) + 1

RopeCharToLinePanics(t, c) == c > Len(t)
RopeCharToLine(t, c) == CountNewlines(t, c)

RopeLineToCharPanics(t, line) == line > LenLines(t)
RopeLineToChar(t, line) ==
    IF line = 0 THEN 0
    ELSE IF line >= LenLines(t) THEN Len(t)
    ELSE CHOOSE i \in 1..Len(t) : t[i] = NL /\ CountNewlines(t, i) = line

(* rope.line(i): line i with its line break, i < len_lines *)
RopeLine(t, line) == Slice(t, RopeLineToChar(t, line), RopeLineToChar(t, line + 1))

LineText(t, line) ==
    IF line >= LenLines(t) THEN <<>>
    ELSE LET s == RopeLine(t, line)
         IN IF EndsWith(s, <<NL>>) THEN Slice(s, 0, Len(s) - 1) ELSE s

LineStartChar(t, line) == RopeLineToChar(t, Min(line, LenLines(t)))
LineEndChar(t, line) == RopeLineToChar(t, Min(line + 1, LenLines(t)))

SliceToString(t, start_char, end_char) ==
    LET start == Min(start_char, Len(t))
        end == Min(end_char, Len(t))
    IN IF start >= end THEN <<>> ELSE Slice(t, start, end)

CharToLinePanics(t, c) == RopeCharToLinePanics(t, c)
CharToLine(t, c) == RopeCharToLine(t, c)

CharToLineCol(t, c) ==
    LET line == RopeCharToLine(t, c)
    IN [line |-> line, col |-> SatSub(c, RopeLineToChar(t, line))]

LineColToChar(t, line, col) ==
    Min(RopeLineToChar(t, line) + col,
        RopeLineToChar(t, Min(line + 1, LenLines(t))))

RopeInsert(t, c, s) == Slice(t, 0, c) \o s \o Slice(t, c, Len(t))
RopeRemove(t, a, b) == Slice(t, 0, a) \o Slice(t, b, Len(t))

(* The three mutations act on a record with fields text, version, panicked *)
(* (a Document, or the Buffer that owns it).                               *)
DocInsert(d, char_idx, s) ==
    IF char_idx > Len(d.text) THEN [d EXCEPT !.panicked = TRUE]
    ELSE [d EXCEPT !.text = RopeInsert(d.text, char_idx, s),
                   !.version = WrappingAdd1(d.version)]

DocDeleteRangeAlwaysBumps(d, start_char, end_char) ==
    IF start_char >= end_char THEN [d EXCEPT !.version = WrappingAdd1(d.version)]
    ELSE IF end_char > Len(d.text) THEN [d EXCEPT !.panicked = TRUE]
    ELSE [d EXCEPT !.text = RopeRemove(d.text, start_char, end_char),
                   !.version = WrappingAdd1(d.version)]

DocDeleteRange(d, start_char, end_char) ==
    IF start_char >= end_char THEN d
    ELSE IF end_char > Len(d.text) THEN [d EXCEPT !.panicked = TRUE]
    ELSE [d EXCEPT !.text = RopeRemove(d.text, start_char, end_char),
                   !.version = WrappingAdd1(d.version)]

DocReplaceRange(d, start_char, end_char, inserted) ==
    LET start == Min(start_char, Len(d.text))
        end == Min(end_char, Len(d.text))
        removed == IF start < end THEN RopeRemove(d.text, start, end) ELSE d.text
        added == IF inserted # <<>> THEN RopeInsert(removed, start, inserted)
                 ELSE removed
    IN [d EXCEPT !.text = added, !.version = WrappingAdd1(d.version)]

----------------------------------------------------------------------------
(* Selection and SelectionSet (selection.rs).  A selection set is the      *)
(* sequence all_including_primary(): the primary first.                    *)

Caret(c) == [anchor |-> c, head |-> c]
IsCaret(s) == s.anchor = s.head
SelRange(s) == IF s.anchor <= s.head THEN <<s.anchor, s.head>>
               ELSE <<s.head, s.anchor>>
SelStart(s) == SelRange(s)[1]
SelEnd(s) == SelRange(s)[2]
IsSingleCaret(ss) == Len(ss) = 1 /\ IsCaret(ss[1])
DefaultSelectionSet == <<Caret(0)>>
SetSingleCaret(c) == <<Caret(c)>>

----------------------------------------------------------------------------
(* History (history.rs).                                                   *)

Edit(start, deleted, inserted) ==
    [start_char |-> start, deleted |-> deleted, inserted |-> inserted]
InsertedLenChars(e) == Len(e.inserted)
DeletedLenChars(e) == Len(e.deleted)
Transaction(kind, edits) == [kind |-> kind, edits |-> edits]

(* A coalescing test that disregards allow_coalesce_insert, so that an     *)
(* insert of any length is merged into an adjacent Insert entry.           *)
CanCoalesceAnyLength(h, tx, allow_coalesce_insert) ==
    /\ tx.kind = "Insert"
    /\ h.undo # <<>>
    /\ LET prev == h.undo[Len(h.undo)]
       IN /\ prev.kind = "Insert"
          /\ Len(prev.edits) = 1
          /\ Len(tx.edits) = 1
          /\ prev.edits[1].deleted = <<>>
          /\ tx.edits[1].deleted = <<>>
          /\ prev.edits[1].start_char + InsertedLenChars(prev.edits[1])
               = tx.edits[1].start_char

(* The coalescing test of History::push. *)
CanCoalesce(h, tx, allow_coalesce_insert) ==
    /\ allow_coalesce_insert
    /\ tx.kind = "Insert"
    /\ h.undo # <<>>
    /\ LET prev == h.undo[Len(h.undo)]
       IN /\ prev.kind = "Insert"
          /\ Len(prev.edits) = 1
          /\ Len(tx.edits) = 1
          /\ prev.edits[1].deleted = <<>>
          /\ tx.edits[1].deleted = <<>>
          /\ prev.edits[1].start_char + InsertedLenChars(prev.edits[1])
               = tx.edits[1].start_char

HistoryPushKeepsRedo(h, tx, allow_coalesce_insert) ==
    IF CanCoalesce(h, tx, allow_coalesce_insert)
    THEN LET n == Len(h.undo)
         IN [undo |-> [h.undo EXCEPT ![n].edits[1].inserted =
                          @ \o tx.edits[1].inserted],
             redo |-> h.redo]
    ELSE [undo |-> Append(h.undo, tx), redo |-> <<>>]

HistoryPushNeverCoalesces(h, tx, allow_coalesce_insert) ==
    [undo |-> Append(h.undo, tx), redo |-> <<>>]

HistoryPush(h, tx, allow_coalesce_insert) ==
    IF CanCoalesce(h, tx, allow_coalesce_insert)
    THEN LET n == Len(h.undo)
         IN [undo |-> [h.undo EXCEPT ![n].edits[1].inserted =
                          @ \o tx.edits[1].inserted],
             redo |-> <<>>]
    ELSE [undo |-> Append(h.undo, tx), redo |-> <<>>]

----------------------------------------------------------------------------
(* Buffer (buffer.rs).  A buffer is the record                             *)
(*   [text, version, sels, undo, redo, impact, panicked].                  *)

NoImpact == None
EditImpact(start_line, end_line_inclusive) ==
    [start_line |-> start_line, end_line_inclusive |-> end_line_inclusive]

ReplaceRange(start, end, inserted) ==
    [start_char |-> start, end_char |-> end, inserted |-> inserted]

(* Vec::sort_by(|a, b| b.start_char.cmp(&a.start_char)): a stable sort,    *)
(* descending by start_char.                                               *)
RECURSIVE InsertDesc(_, _)
InsertDesc(sorted, e) ==
    IF sorted = <<>> THEN <<e>>
    ELSE IF Head(sorted).start_char >= e.start_char
         THEN <<Head(sorted)>> \o InsertDesc(Tail(sorted), e)
         ELSE <<e>> \o sorted

RECURSIVE SortDescFrom(_, _)
SortDescFrom(done, rest) ==
    IF rest = <<>> THEN done
    ELSE SortDescFrom(InsertDesc(done, Head(rest)), Tail(rest))

SortDesc(edits) == SortDescFrom(<<>>, edits)

(* for e in edits { doc.replace_range(e.start_char, e.start_char +         *)
(* e.deleted_len_chars(), &e.inserted) }                                   *)
RECURSIVE ApplyForward(_, _)
ApplyForward(b, edits) ==
    IF edits = <<>> THEN b
    ELSE LET e == Head(edits)
         IN ApplyForward(
                DocReplaceRange(b, e.start_char,
                                e.start_char + DeletedLenChars(e), e.inserted),
                Tail(edits))

(* for e in edits { doc.replace_range(e.start_char, e.start_char +         *)
(* e.inserted_len_chars(), &e.deleted) }                                   *)
RECURSIVE ApplyInverse(_, _)
ApplyInverse(b, edits) ==
    IF edits = <<>> THEN b
    ELSE LET e == Head(edits)
         IN ApplyInverse(
                DocReplaceRange(b, e.start_char,
                                e.start_char + InsertedLenChars(e), e.deleted),
                Tail(edits))

MinOf(S) == CHOOSE x \in S : \A y \in S : x <= y
MaxOf(S) == CHOOSE x \in S : \A y \in S : x >= y

WithHistory(b, h) == [b EXCEPT !.undo = h.undo, !.redo = h.redo]
HistoryOf(b) == [undo |-> b.undo, redo |-> b.redo]

BufferRestoreKeepsHistory(b, snapshot) ==
    [b EXCEPT !.text = snapshot.rope, !.version = snapshot.version,
              !.sels = SetSingleCaret(0), !.impact = NoImpact]

BufferRestore(b, snapshot) ==
    [b EXCEPT !.text = snapshot.rope, !.version = snapshot.version,
              !.undo = <<>>, !.redo = <<>>,
              !.sels = SetSingleCaret(0), !.impact = NoImpact]

ApplyTextToSelections(b, inserted) ==
    LET selections == b.sels
        n == Len(selections)
        t == b.text
        panics == \E i \in 1..n :
                     \/ CharToLinePanics(t, SelStart(selections[i]))
                     \/ CharToLinePanics(t, SelEnd(selections[i]))
        edits == [i \in 1..n |->
                    Edit(SelStart(selections[i]),
                         SliceToString(t, SelStart(selections[i]),
                                       SelEnd(selections[i])),
                         inserted)]
        start_line == MinOf({CharToLine(t, SelStart(selections[i])) : i \in 1..n})
        end_line == MaxOf({CharToLine(t, SelEnd(selections[i])) : i \in 1..n})
        sorted == SortDesc(edits)
        applied == ApplyForward(b, sorted)
        new_set == [i \in 1..n |-> Caret(SelStart(selections[i]) + Len(inserted))]
        kind == IF inserted = <<>> THEN "Delete"
                ELSE IF \A i \in 1..n : IsCaret(selections[i]) THEN "Insert"
                ELSE "Replace"
        allow_coalesce == /\ kind = "Insert"
                          /\ Len(inserted) = 1
                          /\ IsSingleCaret(new_set)
        h == HistoryPush(HistoryOf(b), Transaction(kind, sorted), allow_coalesce)
        inserted_newlines == CountNewlines(inserted, Len(inserted))
    IN IF panics THEN [b EXCEPT !.panicked = TRUE]
       ELSE IF \A i \in 1..n : edits[i].deleted = <<>> /\ edits[i].inserted = <<>>
       THEN b
       ELSE [WithHistory(applied, h) EXCEPT
                !.sels = new_set,
                !.impact = EditImpact(start_line,
                                      end_line + inserted_newlines + 1)]

ApplyReplaceRanges(b, ranges, kind, new_selections) ==
    LET n == Len(ranges)
        t == b.text
        panics == \E i \in 1..n :
                     \/ CharToLinePanics(t, ranges[i].start_char)
                     \/ CharToLinePanics(t, ranges[i].end_char)
        edits == [i \in 1..n |->
                    Edit(ranges[i].start_char,
                         SliceToString(t, ranges[i].start_char, ranges[i].end_char),
                         ranges[i].inserted)]
        start_line == MinOf({CharToLine(t, ranges[i].start_char) : i \in 1..n})
        end_line == MaxOf({CharToLine(t, ranges[i].end_char) : i \in 1..n})
        sorted == SortDesc(edits)
        applied == ApplyForward(b, sorted)
        h == HistoryPush(HistoryOf(b), Transaction(kind, sorted), FALSE)
    IN IF ranges = <<>> THEN b
       ELSE IF panics THEN [b EXCEPT !.panicked = TRUE]
       ELSE [WithHistory(applied, h) EXCEPT
                !.sels = new_selections,
                !.impact = EditImpact(start_line, end_line + 1)]

BufferUndoTouchesOnEmpty(b) ==
    IF b.undo = <<>> THEN [b EXCEPT !.redo = <<>>, !.impact = NoImpact]
    ELSE LET tx == b.undo[Len(b.undo)]
         IN [ApplyInverse(b, SortDesc(tx.edits)) EXCEPT
                !.undo = SubSeq(b.undo, 1, Len(b.undo) - 1),
                !.redo = Append(b.redo, tx),
                !.impact = NoImpact]

(* Buffer::undo; UndoReturns is its return value. *)
UndoReturns(b) == b.undo # <<>>
BufferUndo(b) ==
    IF b.undo = <<>> THEN b
    ELSE LET tx == b.undo[Len(b.undo)]
         IN [ApplyInverse(b, SortDesc(tx.edits)) EXCEPT
                !.undo = SubSeq(b.undo, 1, Len(b.undo) - 1),
                !.redo = Append(b.redo, tx),
                !.impact = NoImpact]

BufferRedoDropsTransaction(b) ==
    IF b.redo = <<>> THEN b
    ELSE LET tx == b.redo[Len(b.redo)]
         IN [ApplyForward(b, SortDesc(tx.edits)) EXCEPT
                !.redo = SubSeq(b.redo, 1, Len(b.redo) - 1),
                !.impact = NoImpact]

(* Buffer::redo; RedoReturns is its return value. *)
RedoReturns(b) == b.redo # <<>>
BufferRedo(b) ==
    IF b.redo = <<>> THEN b
    ELSE LET tx == b.redo[Len(b.redo)]
         IN [ApplyForward(b, SortDesc(tx.edits)) EXCEPT
                !.redo = SubSeq(b.redo, 1, Len(b.redo) - 1),
                !.undo = Append(b.undo, tx),
                !.impact = NoImpact]

----------------------------------------------------------------------------
(* Search helpers (search.rs) and EditorEngine::find_next (engine.rs).     *)
(* str::find and str::rfind work on the UTF-8 bytes of the strings.        *)

(* byte offset of the character with index char_idx, or s.len() *)
CharToByteIdx(s, char_idx) ==
    IF char_idx >= Len(s) THEN Len(Utf8Str(s))
    ELSE Len(Utf8Str(Slice(s, 0, char_idx)))

ByteToCharIdxAsByte(s, byte_idx) == Min(byte_idx, Len(Utf8Str(s)))

(* s[..byte_idx.min(s.len())].chars().count() *)
ByteToCharIdx(s, byte_idx) ==
    LET b == Min(byte_idx, Len(Utf8Str(s)))
    IN Cardinality({i \in 1..Len(s) : Len(Utf8Str(Slice(s, 0, i - 1))) < b})

ByteMatchAt(hay, needle, i) ==
    /\ i + Len(needle) <= Len(hay)
    /\ Slice(hay, i, i + Len(needle)) = needle

ByteMatches(hay, needle) == {i \in 0..Len(hay) : ByteMatchAt(hay, needle, i)}

SearchQuery(needle, case_sensitive) ==
    [needle |-> needle, case_sensitive |-> case_sensitive]
SearchMatch(start_char, end_char) ==
    [start_char |-> start_char, end_char |-> end_char]

FindNext(t, query, from_char, direction) ==
    LET haystack == IF query.case_sensitive THEN t ELSE ToLowercase(t)
        needle == IF query.case_sensitive THEN query.needle
                  ELSE ToLowercase(query.needle)
        hb == Utf8Str(haystack)
        nb == Utf8Str(needle)
    IN IF query.needle = <<>> THEN None
       ELSE IF direction = "Forward"
       THEN LET start_byte == CharToByteIdx(haystack, from_char)
                found == {i \in ByteMatches(hb, nb) : i >= start_byte}
            IN IF found = {} THEN None
               ELSE LET start_char_idx == ByteToCharIdx(haystack, MinOf(found))
                    IN SearchMatch(start_char_idx, start_char_idx + Len(needle))
       ELSE LET end_byte == CharToByteIdx(haystack, Min(from_char, Len(haystack)))
                found == {i \in ByteMatches(hb, nb) : i + Len(nb) <= end_byte}
            IN IF found = {} THEN None
               ELSE LET start_char_idx == ByteToCharIdx(haystack, MaxOf(found))
                    IN SearchMatch(start_char_idx, start_char_idx + Len(needle))

----------------------------------------------------------------------------
(* Word motion (engine.rs).                                                *)

RECURSIVE SkipWhitespaceLeft(_, _)
SkipWhitespaceLeft(chars, i) ==
    IF i > 0 /\ IsWhitespace(chars[i + 1]) THEN SkipWhitespaceLeft(chars, i - 1)
    ELSE i

RECURSIVE SkipWordLeft(_, _)
SkipWordLeft(chars, i) ==
    IF i > 0 /\ IsWordChar(chars[i + 1]) /\ IsWordChar(chars[i])
    THEN SkipWordLeft(chars, i - 1)
    ELSE i

FindWordLeft(chars, from_char) ==
    LET i == Min(from_char, Len(chars))
    IN IF i = 0 THEN 0
       ELSE SkipWordLeft(chars, SkipWhitespaceLeft(chars, i - 1))

RECURSIVE SkipWhitespaceRight(_, _)
SkipWhitespaceRight(chars, i) ==
    IF i < Len(chars) /\ IsWhitespace(chars[i + 1])
    THEN SkipWhitespaceRight(chars, i + 1)
    ELSE i

RECURSIVE SkipWordRight(_, _)
SkipWordRight(chars, i) ==
    IF i >= Len(chars) THEN i
    ELSE IF ~IsWordChar(chars[i + 1]) THEN i
    ELSE IF i + 1 < Len(chars) /\ ~IsWordChar(chars[i + 2]) THEN i + 1
    ELSE SkipWordRight(chars, i + 1)

FindWordRight(chars, from_char) ==
    SkipWordRight(chars, SkipWhitespaceRight(chars, Min(from_char, Len(chars))))

----------------------------------------------------------------------------
(* EditorEngine: the key actions (engine.rs).  Each takes the buffer and   *)
(* yields the buffer after the action.                                     *)

RECURSIVE SetToSeqDesc(_)
SetToSeqDesc(S) ==
    IF S = {} THEN <<>>
    ELSE LET m == MaxOf(S) IN <<m>> \o SetToSeqDesc(S \ {m})

SelectNonEmpty(seq) == SelectSeq(seq, LAMBDA r : r.start_char < r.end_char)

HeadsPanic(b) == \E i \in 1..Len(b.sels) : CharToLinePanics(b.text, b.sels[i].head)
RangesPanic(b) == \E i \in 1..Len(b.sels) :
                     \/ CharToLinePanics(b.text, SelStart(b.sels[i]))
                     \/ CharToLinePanics(b.text, SelEnd(b.sels[i]))

HeadLineOfPrimary(b) == <<CharToLine(b.text, b.sels[1].head)>>

(* lines.sort_unstable(); lines.dedup(); lines.into_iter().rev() *)
HeadLinesDesc(b) ==
    SetToSeqDesc({CharToLine(b.text, b.sels[i].head) : i \in 1..Len(b.sels)})
TouchedLines(b) ==
    {CharToLine(b.text, SelStart(b.sels[i])) : i \in 1..Len(b.sels)}
      \cup {CharToLine(b.text, SelEnd(b.sels[i])) : i \in 1..Len(b.sels)}

Newline(b) == ApplyTextToSelections(b, <<NL>>)

Backspace(b) ==
    IF \E i \in 1..Len(b.sels) : ~IsCaret(b.sels[i])
    THEN ApplyTextToSelections(b, <<>>)
    ELSE LET all == [i \in 1..Len(b.sels) |->
                       LET caret == Min(b.sels[i].head, LenChars(b.text))
                       IN IF caret = 0 THEN Caret(caret)
                          ELSE [anchor |-> caret - 1, head |-> caret]]
         IN ApplyTextToSelections([b EXCEPT !.sels = all], <<>>)

DeleteForward(b) ==
    IF \E i \in 1..Len(b.sels) : ~IsCaret(b.sels[i])
    THEN ApplyTextToSelections(b, <<>>)
    ELSE LET all == [i \in 1..Len(b.sels) |->
                       LET caret == Min(b.sels[i].head, LenChars(b.text))
                       IN IF caret >= LenChars(b.text) THEN Caret(caret)
                          ELSE [anchor |-> caret, head |-> caret + 1]]
         IN ApplyTextToSelections([b EXCEPT !.sels = all], <<>>)

DeleteWordBackward(b) ==
    IF \E i \in 1..Len(b.sels) : ~IsCaret(b.sels[i])
    THEN ApplyTextToSelections(b, <<>>)
    ELSE LET all == [i \in 1..Len(b.sels) |->
                       ReplaceRange(FindWordLeft(b.text, b.sels[i].head),
                                    b.sels[i].head, <<>>)]
             ranges == SelectNonEmpty(all)
             caret == IF ranges = <<>> THEN 0
                      ELSE ranges[Len(ranges)].start_char
         IN ApplyReplaceRanges(b, ranges, "Delete", SetSingleCaret(caret))

DeleteWordForward(b) ==
    IF \E i \in 1..Len(b.sels) : ~IsCaret(b.sels[i])
    THEN ApplyTextToSelections(b, <<>>)
    ELSE LET all == [i \in 1..Len(b.sels) |->
                       ReplaceRange(b.sels[i].head,
                                    FindWordRight(b.text, b.sels[i].head), <<>>)]
             ranges == SelectNonEmpty(all)
             caret == IF ranges = <<>> THEN 0 ELSE ranges[1].start_char
         IN ApplyReplaceRanges(b, ranges, "Delete", SetSingleCaret(caret))

DeleteLineKeepsBreak(b) ==
    IF HeadsPanic(b) THEN [b EXCEPT !.panicked = TRUE]
    ELSE LET lines == HeadLinesDesc(b)
             all == [i \in 1..Len(lines) |->
                       ReplaceRange(LineStartChar(b.text, lines[i]),
                                    LineStartChar(b.text, lines[i])
                                      + Len(LineText(b.text, lines[i])), <<>>)]
             ranges == SelectNonEmpty(all)
             caret == IF ranges = <<>> THEN 0
                      ELSE ranges[Len(ranges)].start_char
         IN ApplyReplaceRanges(b, ranges, "Delete", SetSingleCaret(caret))

DeleteLine(b) ==
    IF HeadsPanic(b) THEN [b EXCEPT !.panicked = TRUE]
    ELSE LET lines == HeadLinesDesc(b)
             all == [i \in 1..Len(lines) |->
                       ReplaceRange(LineStartChar(b.text, lines[i]),
                                    LineEndChar(b.text, lines[i]), <<>>)]
             ranges == SelectNonEmpty(all)
             caret == IF ranges = <<>> THEN 0
                      ELSE ranges[Len(ranges)].start_char
         IN ApplyReplaceRanges(b, ranges, "Delete", SetSingleCaret(caret))

IndentPrefix == <<SP, SP, SP, SP>>
CommentPrefix == <<"/", "/">>

LineHasPrefix(b, line, prefix) ==
    LET start == LineStartChar(b.text, line)
    IN SliceToString(b.text, start, Min(start + Len(prefix), LenChars(b.text)))
         = prefix

ApplyLinePrefixEdit(b, prefix, remove) ==
    IF RangesPanic(b) THEN [b EXCEPT !.panicked = TRUE]
    ELSE LET lines == SetToSeqDesc(TouchedLines(b))
             kept == IF remove
                     THEN SelectSeq(lines, LAMBDA l : LineHasPrefix(b, l, prefix))
                     ELSE lines
             ranges == [i \in 1..Len(kept) |->
                          LET start == LineStartChar(b.text, kept[i])
                          IN IF remove
                             THEN ReplaceRange(start, start + Len(prefix), <<>>)
                             ELSE ReplaceRange(start, start, prefix)]
             caret == b.sels[1].head
         IN IF ranges = <<>> THEN b
            ELSE ApplyReplaceRanges(b, ranges, "Other", SetSingleCaret(caret))

Indent(b) == ApplyLinePrefixEdit(b, IndentPrefix, FALSE)
Outdent(b) == ApplyLinePrefixEdit(b, IndentPrefix, TRUE)

ToggleLinePrefix(b, prefix) ==
    IF RangesPanic(b) THEN [b EXCEPT !.panicked = TRUE]
    ELSE IF \A l \in TouchedLines(b) : LineHasPrefix(b, l, prefix)
    THEN ApplyLinePrefixEdit(b, prefix, TRUE)
    ELSE ApplyLinePrefixEdit(b, prefix, FALSE)

ToggleComment(b) == ToggleLinePrefix(b, CommentPrefix)

DuplicateLine(b) ==
    IF HeadsPanic(b) THEN [b EXCEPT !.panicked = TRUE]
    ELSE LET lines == HeadLinesDesc(b)
             ranges == [i \in 1..Len(lines) |->
                          LET start == LineStartChar(b.text, lines[i])
                              end == LineEndChar(b.text, lines[i])
                              original == SliceToString(b.text, start, end)
                              has_break == EndsWith(original, <<NL>>)
                              line_text == IF has_break
                                           THEN Slice(original, 0, Len(original) - 1)
                                           ELSE original
                              line_break == IF has_break THEN <<NL>> ELSE <<>>
                          IN ReplaceRange(start, end,
                                 line_text \o <<NL>> \o line_text \o line_break)]
             caret == b.sels[1].head
         IN ApplyReplaceRanges(b, ranges, "Other", SetSingleCaret(caret))

(* EditorEngine::copy: the clipboard text *)
CopyText(b) ==
    IF \A i \in 1..Len(b.sels) : IsCaret(b.sels[i]) THEN <<>>
    ELSE ConcatAll([i \in 1..Len(b.sels) |->
                      (IF i > 1 THEN <<NL>> ELSE <<>>)
                        \o SliceToString(b.text, SelStart(b.sels[i]),
                                         SelEnd(b.sels[i]))])

(* EditorEngine::cut: the buffer afterwards; the clipboard gets CopyText *)
Cut(b) == IF CopyText(b) = <<>> THEN b ELSE ApplyTextToSelections(b, <<>>)

Paste(b, clipboard_text) == ApplyTextToSelections(b, clipboard_text)

InsertText(b, t) == ApplyTextToSelections(b, t)

LeftwardMovements == {"Left", "Up", "WordLeft", "LineStart"}
Movements == {"Left", "Right", "Up", "Down", "WordLeft", "WordRight",
              "LineStart", "LineEnd"}

MoveBaseIgnoresExtend(s, movement, extend) ==
    IF movement \in LeftwardMovements THEN SelStart(s) ELSE SelEnd(s)

MoveBase(s, movement, extend) ==
    IF extend THEN s.head
    ELSE IF movement \in LeftwardMovements THEN SelStart(s)
    ELSE SelEnd(s)

MovePanics(t, base, movement) ==
    /\ movement \in {"LineStart", "LineEnd", "Up", "Down"}
    /\ CharToLinePanics(t, base)

NewHead(t, base, movement) ==
    CASE movement = "Left" -> SatSub(base, 1)
      [] movement = "Right" -> Min(base + 1, LenChars(t))
      [] movement = "LineStart" -> LineStartChar(t, CharToLine(t, base))
      [] movement = "LineEnd" -> LineEndChar(t, CharToLine(t, base))
      [] movement = "WordLeft" -> FindWordLeft(t, base)
      [] movement = "WordRight" -> FindWordRight(t, base)
      [] movement = "Up" ->
            LET lc == CharToLineCol(t, base)
            IN IF lc.line = 0 THEN base
               ELSE LineColToChar(t, lc.line - 1, lc.col)
      [] movement = "Down" ->
            LET lc == CharToLineCol(t, base)
            IN IF lc.line + 1 >= LenLines(t) THEN base
               ELSE LineColToChar(t, lc.line + 1, lc.col)

MoveCursors(b, movement, extend) ==
    IF \E i \in 1..Len(b.sels) :
          MovePanics(b.text, MoveBase(b.sels[i], movement, extend), movement)
    THEN [b EXCEPT !.panicked = TRUE]
    ELSE [b EXCEPT !.sels =
            [i \in 1..Len(b.sels) |->
               LET new_head == NewHead(b.text,
                                       MoveBase(b.sels[i], movement, extend),
                                       movement)
               IN IF extend THEN [anchor |-> b.sels[i].anchor, head |-> new_head]
                  ELSE Caret(new_head)]]

(* EditorEngine::replace_range *)
EngineReplaceRange(b, range, replacement) ==
    ApplyReplaceRanges(
        b,
        <<ReplaceRange(range.start_char, range.end_char, replacement)>>,
        "Replace",
        SetSingleCaret(range.start_char + Len(replacement)))

RECURSIVE CollectMatchesOverlapping(_, _, _)
CollectMatchesOverlapping(t, query, cursor) ==
    LET m == FindNext(t, query, cursor, "Forward")
    IN IF m = None THEN <<>>
       ELSE IF m.start_char + 1 >= LenChars(t) THEN <<m>>
       ELSE <<m>> \o CollectMatchesOverlapping(t, query, m.start_char + 1)

(* the loop of EditorEngine::replace_all collecting the matches *)
RECURSIVE CollectMatches(_, _, _)
CollectMatches(t, query, cursor) ==
    LET m == FindNext(t, query, cursor, "Forward")
    IN IF m = None THEN <<>>
       ELSE IF m.end_char >= LenChars(t) THEN <<m>>
       ELSE <<m>> \o CollectMatches(t, query, m.end_char)

ReplaceAllMatches(t, query) ==
    IF query.needle = <<>> THEN <<>> ELSE CollectMatches(t, query, 0)

(* EditorEngine::replace_all: the buffer afterwards; it returns the number *)
(* of matches                                                              *)
ReplaceAllReturns(b, query) == Len(ReplaceAllMatches(b.text, query))
ReplaceAll(b, query, replacement) ==
    LET matches == ReplaceAllMatches(b.text, query)
        ranges == [i \in 1..Len(matches) |->
                     ReplaceRange(matches[i].start_char, matches[i].end_char,
                                  replacement)]
        caret == ranges[Len(ranges)].start_char + Len(replacement)
    IN IF matches = <<>> THEN b
       ELSE ApplyReplaceRanges(b, ranges, "Replace", SetSingleCaret(caret))

----------------------------------------------------------------------------
(* EditorEngine::view_model (engine.rs) and split_by_cols (layout.rs).     *)
(* The line cache is a function from the cached line indices to the cached *)
(* text; the shaped run of a cached line is a function of that text.       *)

EmptyCache == [l \in {} |-> <<>>]
CacheWithout(c, lines) == [l \in (DOMAIN c) \ lines |-> c[l]]

RECURSIVE SplitFrom(_, _, _)
SplitFrom(chars, max_cols, i) ==
    IF i >= Len(chars) THEN <<>>
    ELSE LET end == Min(i + max_cols, Len(chars))
         IN <<Slice(chars, i, end)>> \o SplitFrom(chars, max_cols, end)

SplitByCols(chars, max_cols) ==
    IF max_cols = 0 \/ Len(chars) <= max_cols THEN <<chars>>
    ELSE SplitFrom(chars, max_cols, 0)

EvictStartLineOnly(t, ver, imp, c) ==
    LET line_count == LenLines(t)
    IN IF ver # c.cachedVersion
       THEN [cache |->
                IF line_count # c.cachedLineCount THEN EmptyCache
                ELSE IF imp # NoImpact
                THEN CacheWithout(c.cache, {Min(imp.start_line, line_count)})
                ELSE EmptyCache,
             cachedVersion |-> ver,
             cachedLineCount |-> line_count]
       ELSE c

(* the eviction step: the cache and the version and line count it is for  *)
Evict(t, ver, imp, c) ==
    LET line_count == LenLines(t)
    IN IF ver # c.cachedVersion
       THEN [cache |->
                IF line_count # c.cachedLineCount THEN EmptyCache
                ELSE IF imp # NoImpact
                THEN LET start == Min(imp.start_line, line_count)
                         end == Min(imp.end_line_inclusive, SatSub(line_count, 1))
                     IN CacheWithout(c.cache, start..end)
                ELSE EmptyCache,
             cachedVersion |-> ver,
             cachedLineCount |-> line_count]
       ELSE c

(* the selection spans and caret columns of one segment of one line *)
SegmentSpans(t, selections, line_idx, wrap_col_offset, segment) ==
    LET line_start == LineStartChar(t, line_idx)
        line_end == LineEndChar(t, line_idx)
        seg_start == wrap_col_offset
        seg_end == wrap_col_offset + Len(segment)
        span(s) ==
            LET sel_start == Min(Max(SelStart(s), line_start), line_end)
                sel_end == Min(Max(SelEnd(s), line_start), line_end)
                start_col == SatSub(sel_start, line_start)
                end_col == SatSub(sel_end, line_start)
                inter_start == Min(Max(start_col, seg_start), seg_end)
                inter_end == Min(Max(end_col, seg_start), seg_end)
            IN IF sel_start < sel_end /\ inter_start < inter_end
               THEN <<[start_col |-> inter_start - seg_start,
                       end_col |-> inter_end - seg_start]>>
               ELSE <<>>
    IN ConcatAll([i \in 1..Len(selections) |-> span(selections[i])])

SegmentCursorsOfLine(t, selections, line_idx, wrap_col_offset, segment) ==
    LET line_start == LineStartChar(t, line_idx)
        line_end == LineEndChar(t, line_idx)
        cursor(s) ==
            IF IsCaret(s) /\ s.head >= line_start /\ s.head <= line_end
            THEN <<SatSub(SatSub(s.head, line_start), wrap_col_offset)>>
            ELSE <<>>
    IN ConcatAll([i \in 1..Len(selections) |-> cursor(selections[i])])

SegmentCursors(t, selections, line_idx, wrap_col_offset, segment) ==
    LET line_start == LineStartChar(t, line_idx)
        line_end == LineEndChar(t, line_idx)
        seg_start == wrap_col_offset
        seg_end == wrap_col_offset + Len(segment)
        cursor(s) ==
            LET caret == s.head
                col == SatSub(caret, line_start)
            IN IF /\ IsCaret(s)
                  /\ caret >= line_start /\ caret <= line_end
                  /\ col >= seg_start /\ col <= seg_end
               THEN <<col - seg_start>>
               ELSE <<>>
    IN ConcatAll([i \in 1..Len(selections) |-> cursor(selections[i])])

(* The text view_model uses for a line: the cached text when cached. *)
CachedOrFresh(t, c, line_idx) ==
    IF line_idx \in DOMAIN c THEN c[line_idx] ELSE LineText(t, line_idx)

VisualLinesOf(b, c, vp, soft_wrap, line_idx) ==
    LET line_txt == CachedOrFresh(b.text, c, line_idx)
        segments == IF soft_wrap /\ vp.width_cols > 0
                    THEN SplitByCols(line_txt, vp.width_cols)
                    ELSE <<line_txt>>
    IN [k \in 1..Len(segments) |->
          LET wrap_col_offset == (k - 1) * vp.width_cols
          IN [line_idx |-> line_idx,
              wrap_col_offset |-> wrap_col_offset,
              text |-> segments[k],
              selections |-> SegmentSpans(b.text, b.sels, line_idx,
                                          wrap_col_offset, segments[k]),
              cursors |-> SegmentCursors(b.text, b.sels, line_idx,
                                         wrap_col_offset, segments[k]),
              is_current_line |-> line_idx = CharToLine(b.text, b.sels[1].head),
              highlights |-> <<>>]]

(* view_model(): the cache afterwards, the lines returned, and whether     *)
(* char_to_line(primary.head) panicked (after the eviction step).          *)
ViewModel(b, c, vp, soft_wrap) ==
    LET ev == Evict(b.text, b.version, b.impact, c)
        line_count == LenLines(b.text)
        first == Min(vp.first_line, line_count)
        last_exclusive == Min(first + vp.max_lines, line_count)
        visible == {l \in 0..(line_count - 1) : first <= l /\ l < last_exclusive}
        filled == [l \in (DOMAIN ev.cache) \cup visible |->
                     CachedOrFresh(b.text, ev.cache, l)]
    IN IF CharToLinePanics(b.text, b.sels[1].head)
       THEN [cache |-> ev.cache, cachedVersion |-> ev.cachedVersion,
             cachedLineCount |-> ev.cachedLineCount,
             lines |-> <<>>, panicked |-> TRUE]
       ELSE [cache |-> filled, cachedVersion |-> ev.cachedVersion,
             cachedLineCount |-> ev.cachedLineCount,
             lines |-> ConcatAll([i \in 1..(last_exclusive - first) |->
                          VisualLinesOf(b, ev.cache, vp, soft_wrap, first + i - 1)]),
             panicked |-> FALSE]

----------------------------------------------------------------------------
(* The state machine.  One action per operation of the engine API; the     *)
(* caller performs one operation at a time (spec section 5).               *)

Buf == [text |-> text, version |-> version, sels |-> sels, undo |-> undo,
        redo |-> redo, impact |-> impact, panicked |-> FALSE]

CacheState == [cache |-> cache, cachedVersion |-> cachedVersion,
               cachedLineCount |-> cachedLineCount]

NoBurst == [n |-> 0, base |-> <<>>, len0 |-> 0, pos |-> 0, absorbed |-> 0]

(* The number of characters of the entry on top of the undo stack h when   *)
(* that entry is an insertion at a single caret (one edit, nothing         *)
(* deleted) that ended at position p, and 0 otherwise.                     *)
TopInsertEndingAt(h, p) ==
    IF /\ h # <<>>
       /\ h[Len(h)].kind = "Insert"
       /\ Len(h[Len(h)].edits) = 1
       /\ h[Len(h)].edits[1].deleted = <<>>
       /\ h[Len(h)].edits[1].start_char + Len(h[Len(h)].edits[1].inserted) = p
    THEN Len(h[Len(h)].edits[1].inserted)
    ELSE 0

Recorded(b2) ==
    IF Len(b2.undo) = Len(undo) + 1 THEN "pushed"
    ELSE IF Len(b2.undo) = Len(undo) /\ b2.undo # undo THEN "coalesced"
    ELSE "none"

(* The run of one-character inserts at a single caret, each at the         *)
(* position where the previous one left the caret, with no other change of *)
(* the document or the history in between: their number n, the text (base) *)
(* and the length of the undo stack (len0) before the first of them, the   *)
(* position after the last (pos), and the number of characters of the      *)
(* insertion ending at the caret that was on top of the undo stack before  *)
(* the first of them (absorbed, 0 when there was none).                    *)
NextBurst(b2, typed) ==
    IF Len(typed) = 1 /\ IsSingleCaret(sels) /\ ~b2.panicked
    THEN IF burst.n > 0 /\ burst.pos = sels[1].head
         THEN [burst EXCEPT !.n = @ + 1, !.pos = @ + 1]
         ELSE [n |-> 1, base |-> text, len0 |-> Len(undo),
               pos |-> sels[1].head + 1,
               absorbed |-> TopInsertEndingAt(undo, sels[1].head)]
    ELSE IF b2.text = text /\ b2.undo = undo /\ b2.redo = redo /\ ~b2.panicked
    THEN burst
    ELSE NoBurst

(* The buffer becomes b2 by operation o, called with the arguments a, which *)
(* returned r; typed is the text the operation inserted at the selections  *)
(* (<<>> when it does not).                                                *)
CommitCall(b2, o, a, r, recorded, typed) ==
    /\ ~panicked
    /\ budget > 0
    /\ Len(b2.text) <= MaxLen
    /\ text' = b2.text
    /\ version' = b2.version
    /\ sels' = b2.sels
    /\ undo' = b2.undo
    /\ redo' = b2.redo
    /\ impact' = b2.impact
    /\ panicked' = b2.panicked
    /\ op' = o
    /\ args' = a
    /\ ret' = r
    /\ rec' = recorded
    /\ pre' = [text |-> text, sels |-> sels, undoLen |-> Len(undo),
               redoLen |-> Len(redo), burst |-> burst, view |-> CacheState]
    /\ burst' = NextBurst(b2, typed)
    /\ sinceRestore' = IF o = "restore" THEN TRUE
                       ELSE IF o = "view_model" THEN FALSE ELSE sinceRestore
    /\ budget' = budget - 1
    /\ UNCHANGED appVars

Commit(b2, o, r, recorded, typed) == CommitCall(b2, o, None, r, recorded, typed)

Edited(b2, o, typed) == Commit(b2, o, None, Recorded(b2), typed)

ViewUnchanged == UNCHANGED <<cache, cachedVersion, cachedLineCount, viewport,
                             softWrap, highlighter, vm>>
CallerUnchanged == UNCHANGED <<clipboard, snap, lastMatch>>

KeyNewline ==
    /\ Edited(Newline(Buf), "Newline", <<NL>>)
    /\ ViewUnchanged /\ CallerUnchanged

KeyBackspace ==
    /\ Edited(Backspace(Buf), "Backspace", <<>>)
    /\ ViewUnchanged /\ CallerUnchanged

KeyDelete ==
    /\ Edited(DeleteForward(Buf), "Delete", <<>>)
    /\ ViewUnchanged /\ CallerUnchanged

KeyDeleteWordBackward ==
    /\ Edited(DeleteWordBackward(Buf), "DeleteWordBackward", <<>>)
    /\ ViewUnchanged /\ CallerUnchanged

KeyDeleteWordForward ==
    /\ Edited(DeleteWordForward(Buf), "DeleteWordForward", <<>>)
    /\ ViewUnchanged /\ CallerUnchanged

KeyDeleteLine ==
    /\ Edited(DeleteLine(Buf), "DeleteLine", <<>>)
    /\ ViewUnchanged /\ CallerUnchanged

(* KeyAction::Undo and buffer.undo() *)
Undo ==
    /\ Commit(BufferUndo(Buf), "undo", UndoReturns(Buf), "none", <<>>)
    /\ ViewUnchanged /\ CallerUnchanged

(* KeyAction::Redo and buffer.redo() *)
Redo ==
    /\ Commit(BufferRedo(Buf), "redo", RedoReturns(Buf), "none", <<>>)
    /\ ViewUnchanged /\ CallerUnchanged

KeyCopy ==
    /\ Edited(Buf, "Copy", <<>>)
    /\ clipboard' = CopyText(Buf)
    /\ ViewUnchanged /\ UNCHANGED <<snap, lastMatch>>

KeyCut ==
    /\ Edited(Cut(Buf), "Cut", <<>>)
    /\ clipboard' = IF Cut(Buf).panicked THEN clipboard ELSE CopyText(Buf)
    /\ ViewUnchanged /\ UNCHANGED <<snap, lastMatch>>

KeyPaste ==
    /\ Edited(Paste(Buf, clipboard), "Paste", clipboard)
    /\ ViewUnchanged /\ CallerUnchanged

KeyIndent ==
    /\ Edited(Indent(Buf), "Indent", <<>>)
    /\ ViewUnchanged /\ CallerUnchanged

KeyOutdent ==
    /\ Edited(Outdent(Buf), "Outdent", <<>>)
    /\ ViewUnchanged /\ CallerUnchanged

KeyDuplicateLine ==
    /\ Edited(DuplicateLine(Buf), "DuplicateLine", <<>>)
    /\ ViewUnchanged /\ CallerUnchanged

KeyToggleComment ==
    /\ Edited(ToggleComment(Buf), "ToggleComment", <<>>)
    /\ ViewUnchanged /\ CallerUnchanged

KeyMove ==
    \E movement \in Movements, extend \in BOOLEAN :
        /\ CommitCall(MoveCursors(Buf, movement, extend), "Move",
                      [movement |-> movement, extend |-> extend], None,
                      Recorded(MoveCursors(Buf, movement, extend)), <<>>)
        /\ ViewUnchanged /\ CallerUnchanged

(* Left and Right only, for the specifications about the history *)
KeyMoveLeftRight ==
    \E movement \in {"Left", "Right"} :
        /\ Edited(MoveCursors(Buf, movement, FALSE), "Move", <<>>)
        /\ ViewUnchanged /\ CallerUnchanged

InsertTexts == {<<"a">>, <<"a", "b">>}

DoInsertText ==
    \E t \in InsertTexts :
        /\ CommitCall(InsertText(Buf, t), "insert_text", [text |-> t], None,
                      Recorded(InsertText(Buf, t)), t)
        /\ ViewUnchanged /\ CallerUnchanged

Queries == {SearchQuery(<<"a">>, TRUE), SearchQuery(<<"a", "a">>, TRUE),
            SearchQuery(<<>>, TRUE), SearchQuery(<<"a">>, FALSE)}
Replacements == {<<>>, <<"b">>, <<"a", "a", "a">>}
Directions == {"Forward", "Backward"}

DoFindNext ==
    \E query \in Queries, from_char \in 0..(Len(text) + 1), dir \in Directions :
        LET m == FindNext(text, query, from_char, dir)
        IN /\ CommitCall(Buf, "find_next",
                         [query |-> query, from_char |-> from_char,
                          direction |-> dir], m, "none", <<>>)
           /\ lastMatch' = m
           /\ ViewUnchanged /\ UNCHANGED <<clipboard, snap>>

(* replace_range with a match find_next returned: the one the caller holds *)
(* from an earlier call, or a fresh one                                    *)
HeldMatches ==
    ({lastMatch} \cup {FindNext(text, q, 0, "Forward") : q \in Queries}) \ {None}

DoReplaceRange ==
    \E range \in HeldMatches, replacement \in Replacements :
        /\ Edited(EngineReplaceRange(Buf, range, replacement), "replace_range",
                  <<>>)
        /\ ViewUnchanged /\ CallerUnchanged

DoReplaceAll ==
    \E query \in Queries, replacement \in Replacements :
        /\ CommitCall(ReplaceAll(Buf, query, replacement), "replace_all",
                      [query |-> query, replacement |-> replacement],
                      ReplaceAllReturns(Buf, query),
                      Recorded(ReplaceAll(Buf, query, replacement)), <<>>)
        /\ ViewUnchanged /\ CallerUnchanged

DoSnapshot ==
    /\ Commit(Buf, "snapshot", None, "none", <<>>)
    /\ snap' = [rope |-> text, version |-> version]
    /\ ViewUnchanged /\ UNCHANGED <<clipboard, lastMatch>>

DoRestore ==
    /\ snap # None
    /\ Commit(BufferRestore(Buf, snap), "restore", None, "none", <<>>)
    /\ ViewUnchanged /\ CallerUnchanged

(* The spans highlight_lines can return for a line: none without a        *)
(* highlighter; with one, whatever the tree-sitter grammar yields.         *)
HighlightOutcomes(hl) ==
    IF hl = None THEN {<<>>}
    ELSE {<<>>, <<[start_byte |-> 0, end_byte |-> 1, token_type |-> "Keyword"]>>}

SetHighlights(lines, highlights) ==
    [k \in 1..Len(lines) |-> [lines[k] EXCEPT !.highlights = highlights]]

DoViewModel ==
    LET r == ViewModel(Buf, CacheState, viewport, softWrap)
    IN \E highlights \in HighlightOutcomes(highlighter) :
       /\ Commit([Buf EXCEPT !.panicked = r.panicked], "view_model", None,
                 "none", <<>>)
       /\ cache' = r.cache
       /\ cachedVersion' = r.cachedVersion
       /\ cachedLineCount' = r.cachedLineCount
       /\ vm' = IF highlights = <<>> THEN r.lines
                ELSE SetHighlights(r.lines, highlights)
       /\ UNCHANGED <<viewport, softWrap, highlighter>>
       /\ CallerUnchanged

(* The file names the caller passes to set_filename, split at the dots. *)
Filenames == {<<"a", "rs">>, <<"b", "js">>, <<"c", "txt">>, <<"rs">>}

(* LanguageRegistry::detect_language: the language registered for the      *)
(* text after the last dot (the whole name when it has no dot).            *)
DetectLanguage(filename) ==
    LET extension == filename[Len(filename)]
    IN IF extension = "rs" THEN [name |-> "rust"]
       ELSE IF extension \in {"js", "jsx", "mjs"} THEN [name |-> "javascript"]
       ELSE None

(* EditorEngine::set_filename given the result of                         *)
(* SyntaxHighlighter::set_language: the highlighter afterwards.            *)
SetFilename(hl, filename, configured) ==
    IF DetectLanguage(filename) # None
    THEN IF configured THEN DetectLanguage(filename) ELSE hl
    ELSE None

DoSetFilename ==
    \E filename \in Filenames, configured \in BOOLEAN :
        /\ DetectLanguage(filename) = None => configured = FALSE
        /\ CommitCall(Buf, "set_filename", [filename |-> filename],
                      [configured |-> configured], "none", <<>>)
        /\ highlighter' = SetFilename(highlighter, filename, configured)
        /\ UNCHANGED <<cache, cachedVersion, cachedLineCount, viewport,
                       softWrap, vm>>
        /\ CallerUnchanged

(* Viewport of EditorEngine::new *)
DefaultViewport == [first_line |-> 0, max_lines |-> 64, width_cols |-> 120]

(* The caller writes the public fields layout.soft_wrap and viewport. *)
Layouts ==
    {[soft_wrap |-> FALSE, viewport |-> DefaultViewport],
     [soft_wrap |-> TRUE, viewport |-> DefaultViewport],
     [soft_wrap |-> TRUE,
      viewport |-> [first_line |-> 0, max_lines |-> 64, width_cols |-> 2]],
     [soft_wrap |-> TRUE,
      viewport |-> [first_line |-> 0, max_lines |-> 64, width_cols |-> 0]],
     [soft_wrap |-> FALSE,
      viewport |-> [first_line |-> 0, max_lines |-> 1, width_cols |-> 120]]}

SetLayout ==
    \E l \in Layouts :
        /\ Commit(Buf, "set_layout", None, "none", <<>>)
        /\ softWrap' = l.soft_wrap
        /\ viewport' = l.viewport
        /\ UNCHANGED <<cache, cachedVersion, cachedLineCount, highlighter, vm>>
        /\ CallerUnchanged

(* WorkspaceSettings (workspace/settings.rs). A path is a number. *)
RecentLimit == 20

AddRecentFileKeepsDuplicates(files, path) ==
    LET inserted == <<path>> \o files
    IN IF Len(inserted) > RecentLimit THEN SubSeq(inserted, 1, RecentLimit)
       ELSE inserted

AddRecentFile(files, path) ==
    LET retained == SelectSeq(files, LAMBDA p : p # path)
        inserted == <<path>> \o retained
    IN IF Len(inserted) > RecentLimit THEN SubSeq(inserted, 1, RecentLimit)
       ELSE inserted

Range(f) == {f[i] : i \in DOMAIN f}

(* The paths a call adds: a path never added before, or, for at most       *)
(* MaxReadds calls, one added before: the first, second or last of the     *)
(* list, or the path added first of all.                                   *)
PathChoices ==
    {Cardinality(Range(addedPaths)) + 1}
      \cup IF Len(addedPaths) - Cardinality(Range(addedPaths)) >= MaxReadds
           THEN {}
           ELSE ({1} \cap Range(addedPaths))
                  \cup {recent_files[i] :
                          i \in {1, 2, Len(recent_files)} \cap DOMAIN recent_files}

SettingsUnchanged == UNCHANGED <<recent_files, addedPaths>>
BridgeUnchanged == UNCHANGED <<channel, throttle, now, delivered, sentCount>>

EngineUnchanged ==
    UNCHANGED <<text, version, sels, undo, redo, impact, clipboard, cache,
                cachedVersion, cachedLineCount, snap, lastMatch, viewport,
                softWrap, highlighter, vm, panicked, ret, rec, pre, burst,
                sinceRestore>>

DoAddRecentFile ==
    \E path \in PathChoices :
        /\ budget > 0
        /\ recent_files' = AddRecentFile(recent_files, path)
        /\ addedPaths' = Append(addedPaths, path)
        /\ op' = "add_recent_file"
        /\ args' = [path |-> path]
        /\ budget' = budget - 1
        /\ EngineUnchanged /\ BridgeUnchanged

(* The event bridge (app/events.rs). Times are in milliseconds. *)
EditorRepaintInterval == 16
CursorUpdateInterval == 50

EventKinds == {"EditorContentChanged", "CursorMoved", "StatusUpdate"}

(* the match in should_emit_editor_repaint / should_emit_cursor_update *)
ShouldEmitAlways(last, t, interval) == TRUE

ShouldEmit(last, t, interval) ==
    IF last # None THEN ~(t - last.at < interval) ELSE TRUE

(* EventSender::send / try_send on a channel with room *)
BridgeSend ==
    \E kind \in EventKinds :
        /\ budget > 0
        /\ Len(channel) < BufferSize
        /\ channel' = Append(channel, [kind |-> kind, id |-> sentCount + 1])
        /\ sentCount' = sentCount + 1
        /\ op' = "send"
        /\ args' = [kind |-> kind]
        /\ budget' = budget - 1
        /\ UNCHANGED <<throttle, now, delivered>>
        /\ EngineUnchanged /\ SettingsUnchanged

(* One turn of the loop of EventReceiver::recv / try_recv: an event is     *)
(* taken from the channel and returned or, when throttled, dropped.        *)
BridgeRecv ==
    /\ budget > 0
    /\ channel # <<>>
    /\ LET event == Head(channel)
           should_emit ==
               CASE event.kind = "EditorContentChanged" ->
                      ShouldEmit(throttle.last_editor_repaint, now,
                                 EditorRepaintInterval)
                 [] event.kind = "CursorMoved" ->
                      ShouldEmit(throttle.last_cursor_update, now,
                                 CursorUpdateInterval)
                 [] OTHER -> TRUE
       IN /\ channel' = Tail(channel)
          /\ throttle' =
                IF event.kind = "EditorContentChanged" /\ should_emit
                THEN [throttle EXCEPT !.last_editor_repaint = [at |-> now]]
                ELSE IF event.kind = "CursorMoved" /\ should_emit
                THEN [throttle EXCEPT !.last_cursor_update = [at |-> now]]
                ELSE throttle
          /\ delivered' = IF should_emit
                          THEN Append(delivered, [kind |-> event.kind,
                                                  id |-> event.id, at |-> now])
                          ELSE delivered
          /\ op' = "recv"
          /\ args' = [kind |-> event.kind, id |-> event.id]
    /\ budget' = budget - 1
    /\ UNCHANGED <<now, sentCount>>
    /\ EngineUnchanged /\ SettingsUnchanged

(* Time passes. *)
Delays == {20, 50}

Tick ==
    \E d \in Delays :
        /\ budget > 0
        /\ now' = now + d
        /\ op' = "tick"
        /\ args' = None
        /\ budget' = budget - 1
        /\ UNCHANGED <<channel, throttle, delivered, sentCount>>
        /\ EngineUnchanged /\ SettingsUnchanged

(* Calls of the Document API on the document alone. *)
DocTexts == {<<>>, <<"a">>, <<"a", NL>>}

DocCall(d2, o, a) ==
    /\ CommitCall([Buf EXCEPT !.text = d2.text, !.version = d2.version,
                              !.panicked = d2.panicked], o, a, None, "none", <<>>)
    /\ ViewUnchanged /\ CallerUnchanged

CallInsert ==
    \E c \in 0..(Len(text) + 1), s \in DocTexts :
        DocCall(DocInsert(Buf, c, s), "doc.insert", [char_idx |-> c, text |-> s])

CallDeleteRange ==
    \E a \in 0..(Len(text) + 1), b \in 0..(Len(text) + 1) :
        DocCall(DocDeleteRange(Buf, a, b), "doc.delete_range",
                [start_char |-> a, end_char |-> b])

CallReplaceRange ==
    \E a \in 0..(Len(text) + 1), b \in 0..(Len(text) + 1), s \in DocTexts :
        DocCall(DocReplaceRange(Buf, a, b, s), "doc.replace_range",
                [start_char |-> a, end_char |-> b, inserted |-> s])

----------------------------------------------------------------------------
(* Initial states: EditorEngine::new(text), after which the caller may set *)
(* buffer.selections (a public field) to selections inside the document.   *)

EngineNew(t, ver, ss, clip, steps) ==
    /\ text = t
    /\ version = ver
    /\ sels = ss
    /\ undo = <<>>
    /\ redo = <<>>
    /\ impact = NoImpact
    /\ clipboard = clip
    /\ cache = EmptyCache
    /\ cachedVersion = Zero64
    /\ cachedLineCount = 0
    /\ snap = None
    /\ lastMatch = None
    /\ viewport = DefaultViewport
    /\ softWrap = FALSE
    /\ highlighter = None
    /\ recent_files = <<>>
    /\ addedPaths = <<>>
    /\ channel = <<>>
    /\ throttle = [last_editor_repaint |-> None, last_cursor_update |-> None]
    /\ now = 0
    /\ delivered = <<>>
    /\ sentCount = 0
    /\ vm = <<>>
    /\ panicked = FALSE
    /\ op = "new"
    /\ args = None
    /\ ret = None
    /\ rec = "none"
    /\ pre = [text |-> t, sels |-> ss, undoLen |-> 0, redoLen |-> 0,
             burst |-> NoBurst,
             view |-> [cache |-> EmptyCache, cachedVersion |-> Zero64,
                       cachedLineCount |-> 0]]
    /\ burst = NoBurst
    /\ sinceRestore = FALSE
    /\ budget = steps

(* selection sets inside a document of n characters *)
TwoCarets(n) == {<<Caret(c), Caret(d)>> : c \in 0..n, d \in 0..n}
OneRange(n) == {<<[anchor |-> a, head |-> h]>> : a \in 0..n, h \in 0..n}

(* The whole engine API. *)
InitTexts == {<<"a", NL, "a">>, <<"a", SP, "a", NL>>}

Init ==
    \E t \in InitTexts :
        \E ss \in OneRange(Len(t)) \cup TwoCarets(Len(t)) :
            EngineNew(t, Zero64, ss, <<>>, MaxSteps)

Next ==
    \/ KeyNewline \/ KeyBackspace \/ KeyDelete
    \/ KeyDeleteWordBackward \/ KeyDeleteWordForward \/ KeyDeleteLine
    \/ Undo \/ Redo
    \/ KeyCopy \/ KeyCut \/ KeyPaste
    \/ KeyIndent \/ KeyOutdent \/ KeyDuplicateLine \/ KeyToggleComment
    \/ KeyMove
    \/ DoInsertText
    \/ DoFindNext \/ DoReplaceRange \/ DoReplaceAll
    \/ DoSnapshot \/ DoRestore
    \/ DoViewModel

Spec == Init /\ [][Next]_vars

(* The operations that edit the document, with undo and redo. *)
InitHistory ==
    \/ EngineNew(<<>>, Zero64, <<Caret(0)>>, <<>>, MaxEditSteps)
    \/ EngineNew(<<"a", NL, "a">>, Zero64, <<Caret(3)>>, <<"b", "b">>, MaxEditSteps)
    \/ EngineNew(<<"a", NL, "a">>, Zero64, <<Caret(0), Caret(2)>>, <<>>,
                 MaxEditSteps)

NextHistory ==
    \/ KeyNewline \/ KeyBackspace \/ KeyDelete
    \/ KeyDeleteWordBackward \/ KeyDeleteWordForward \/ KeyDeleteLine
    \/ Undo \/ Redo
    \/ KeyCut \/ KeyPaste
    \/ KeyIndent \/ KeyOutdent \/ KeyDuplicateLine \/ KeyToggleComment
    \/ KeyMoveLeftRight
    \/ DoInsertText
    \/ DoReplaceRange \/ DoReplaceAll

SpecHistory == InitHistory /\ [][NextHistory]_vars

(* Typing at a single caret, with the operations that move the caret or   *)
(* push other transactions between the keystrokes.                         *)
InitTyping ==
    \/ EngineNew(<<>>, Zero64, <<Caret(0)>>, <<"b">>, MaxTypingSteps)
    \/ EngineNew(<<"a", NL, "a">>, Zero64, <<Caret(3)>>, <<"b">>, MaxTypingSteps)

NextTyping ==
    \/ DoInsertText \/ KeyNewline \/ KeyPaste
    \/ KeyBackspace \/ KeyDelete \/ KeyDeleteLine
    \/ KeyDeleteWordBackward \/ KeyDeleteWordForward \/ KeyCut
    \/ KeyIndent \/ KeyOutdent \/ KeyDuplicateLine \/ KeyToggleComment
    \/ KeyMoveLeftRight
    \/ Undo \/ Redo

SpecTyping == InitTyping /\ [][NextTyping]_vars

(* Editing between pulls of the view model. *)
InitView ==
    \/ EngineNew(<<"a", NL, "a", NL, "a">>, Zero64, DefaultSelectionSet, <<>>,
                 MaxViewSteps)
    \/ EngineNew(<<"a", NL, NL, "a">>, Zero64, <<Caret(0), Caret(3)>>, <<>>,
                 MaxViewSteps)

NextView ==
    \/ DoViewModel
    \/ DoInsertText \/ KeyToggleComment \/ KeyBackspace
    \/ KeyMove
    \/ Undo

SpecView == InitView /\ [][NextView]_vars

(* replace_all on a document, with undo and redo. *)
ReplaceTexts ==
    {<<>>, <<"a">>, <<"a", "a", "a">>, <<"a", "b", "a">>, <<"b", "a", "a", "b">>,
     <<"a", "a", "a", "a">>, <<"a", "e2", "a", "a">>, <<"A", "a", NL, "a">>}

InitReplace ==
    \E t \in ReplaceTexts :
        \E c \in 0..Len(t) :
            EngineNew(t, Zero64, <<Caret(c)>>, <<>>, MaxReplaceSteps)

NextReplace == DoReplaceAll \/ Undo \/ Redo \/ DoInsertText

SpecReplace == InitReplace /\ [][NextReplace]_vars

(* The Document API on a document alone. *)
InitVersions == {Zero64, <<LimbBase - 1, 0, 0, 0>>,
                 <<LimbBase - 1, LimbBase - 1, LimbBase - 1, 0>>,
                 <<LimbBase - 2, LimbBase - 1, LimbBase - 1, LimbBase - 1>>,
                 Max64}

InitDoc ==
    \E t \in DocTexts, v \in InitVersions :
        EngineNew(t, v, DefaultSelectionSet, <<>>, MaxDocCalls)

NextDoc == CallInsert \/ CallDeleteRange \/ CallReplaceRange

SpecDoc == InitDoc /\ [][NextDoc]_vars

----------------------------------------------------------------------------
(* Properties of the engine.                                               *)

(* C1: after any sequence of key actions, insert_text, replace_range,      *)
(* replace_all, undo and redo, the anchor and the head of every selection  *)
(* are at most len_chars() of the document.                                *)
C1_SelectionsInRange ==
    ~panicked =>
        \A i \in DOMAIN sels :
            sels[i].anchor <= LenChars(text) /\ sels[i].head <= LenChars(text)

(* C2: no sequence of engine operations reaches a call that panics.        *)
C2_NoPanic == ~panicked

(* C3: after one edit operation that recorded one transaction, one undo    *)
(* restores the text the document had before that operation, also when the *)
(* transaction holds several edits.                                        *)
C3_UndoRestoresText ==
    [][(rec = "pushed" /\ op' = "undo" /\ ~panicked') => text' = pre.text]_vars

(* C4: undo followed by redo gives the text before the undo, and redo      *)
(* followed by undo gives the text before the redo.                        *)
C4_UndoRedoInverse ==
    [][/\ (op = "undo" /\ ret = TRUE /\ op' = "redo" /\ ~panicked')
            => text' = pre.text
       /\ (op = "redo" /\ ret = TRUE /\ op' = "undo" /\ ~panicked')
            => text' = pre.text]_vars

(* C5: at every view_model() call, the cached text used for each line of   *)
(* the viewport equals line_text of that line in the current document.     *)
C5_CacheCoherent ==
    (op = "view_model" /\ ~panicked) =>
        \A i \in DOMAIN vm :
            cache[vm[i].line_idx] = LineText(text, vm[i].line_idx)

(* C6 as stated: n >= 1 consecutive one-character inserts at a single      *)
(* caret add exactly one entry to the undo stack in total, and one undo     *)
(* after them gives the text before the first of them.                     *)
C6_BurstAddsOneEntry ==
    /\ burst.n >= 1 => Len(undo) = burst.len0 + 1
    /\ (op = "undo" /\ pre.burst.n >= 1 /\ ~panicked) => text = pre.burst.base

(* The text t without the k characters that end at position p. *)
WithoutBefore(t, p, k) == Slice(t, 0, p - k) \o Slice(t, p, Len(t))

(* C6, amended: n >= 1 consecutive one-character inserts at a single caret *)
(* add exactly one entry to the undo stack, unless the entry on top of the *)
(* stack before the first of them is an insertion at a single caret that   *)
(* ended at the caret: then they are appended to that entry and add none.  *)
(* One undo after them removes all n characters, and with them the text of *)
(* the entry they were appended to.  A one-character insert at a position  *)
(* where no insertion on top of the stack ends starts a new entry, and     *)
(* nothing else is appended to an existing entry.                          *)
C6_BurstCoalesces ==
    /\ burst.n >= 1 =>
          Len(undo) = burst.len0 + (IF burst.absorbed > 0 THEN 0 ELSE 1)
    /\ (op = "undo" /\ pre.burst.n >= 1 /\ ~panicked) =>
          text = WithoutBefore(pre.burst.base, pre.burst.pos - pre.burst.n,
                               pre.burst.absorbed)
    /\ rec = "coalesced" => (burst.n >= 2 \/ (burst.n = 1 /\ burst.absorbed > 0))

(* Two or more inserts were coalesced into one new entry above an older    *)
(* entry, and one undo has removed them.                                   *)
C6_Witness ==
    /\ op = "undo" /\ ret = TRUE /\ ~panicked
    /\ pre.burst.n >= 2 /\ pre.burst.absorbed = 0 /\ pre.burst.len0 >= 1
    /\ Len(undo) = pre.burst.len0
    /\ Len(pre.text) = Len(text) + pre.burst.n

(* C7: after every operation that records a transaction, pushed as a new   *)
(* entry or coalesced into the entry on top, the redo stack is empty and   *)
(* redo() returns false.                                                   *)
C7_RecordingClearsRedo ==
    (rec \in {"pushed", "coalesced"} /\ ~panicked) =>
        (redo = <<>> /\ ~RedoReturns(Buf))

(* An insert was coalesced while the redo stack held an entry. *)
C7_Witness ==
    rec = "coalesced" /\ pre.redoLen > 0 /\ redo = <<>> /\ ~panicked

(* C8: undo() on an empty undo stack and redo() on an empty redo stack     *)
(* return false and leave the text, the version, the selections, both      *)
(* stacks and last_edit_impact unchanged.                                  *)
C8_EmptyUndoRedoNoOp ==
    [][/\ (op' = "undo" /\ undo = <<>>) =>
            (ret' = FALSE /\ UNCHANGED <<text, version, sels, undo, redo, impact>>)
       /\ (op' = "redo" /\ redo = <<>>) =>
            (ret' = FALSE /\ UNCHANGED <<text, version, sels, undo, redo, impact>>)
      ]_vars

(* undo() returned false in a state with an edited document, an entry on   *)
(* the redo stack and selections away from the start.                      *)
C8_Witness ==
    /\ op = "undo" /\ ret = FALSE
    /\ redo # <<>> /\ version # Zero64 /\ sels # DefaultSelectionSet

DocOps == {"doc.insert", "doc.delete_range", "doc.replace_range"}

(* C9 as stated: each call of Document::insert, delete_range and           *)
(* replace_range that returns sets version to the old version + 1,         *)
(* wrapping at 2^64, whatever the arguments.                               *)
C9_EveryCallBumps ==
    [][(op' \in DocOps /\ ~panicked') => version' = WrappingAdd1(version)]_vars

(* C9, amended: insert and replace_range set version to the old version    *)
(* + 1 (wrapping at 2^64) on every call that returns; delete_range does so *)
(* when start_char < end_char and leaves version as it is otherwise.  A    *)
(* changed version is greater than the old one, except for the step from   *)
(* 2^64 - 1 to 0.                                                          *)
C9_VersionBump ==
    [][/\ (op' \in {"doc.insert", "doc.replace_range"} /\ ~panicked')
            => version' = WrappingAdd1(version)
       /\ (op' = "doc.delete_range" /\ ~panicked')
            => version' = IF args'.start_char < args'.end_char
                          THEN WrappingAdd1(version) ELSE version
       /\ (op' \in DocOps /\ version' # version)
            => (Less64(version, version') \/ (version = Max64 /\ version' = Zero64))
      ]_vars

(* A mutation has taken the version from 2^64 - 1 to 0, and a delete_range *)
(* with start_char >= end_char has returned since.                         *)
C9_Witness ==
    /\ op = "doc.delete_range" /\ ~panicked
    /\ args.start_char >= args.end_char
    /\ version = Zero64 /\ text \notin DocTexts

(* The occurrences of needle in t that a scan from position i finds, left  *)
(* to right and without overlap, and t from i on with them replaced by r.  *)
RECURSIVE CountFrom(_, _, _)
CountFrom(t, needle, i) ==
    IF i + Len(needle) > Len(t) THEN 0
    ELSE IF Slice(t, i, i + Len(needle)) = needle
         THEN 1 + CountFrom(t, needle, i + Len(needle))
         ELSE CountFrom(t, needle, i + 1)

RECURSIVE ReplacedFrom(_, _, _, _)
ReplacedFrom(t, needle, r, i) ==
    IF i + Len(needle) > Len(t) THEN Slice(t, i, Len(t))
    ELSE IF Slice(t, i, i + Len(needle)) = needle
         THEN r \o ReplacedFrom(t, needle, r, i + Len(needle))
         ELSE <<t[i + 1]>> \o ReplacedFrom(t, needle, r, i + 1)

(* C10: replace_all with a non-empty case-sensitive needle returns the     *)
(* number of non-overlapping occurrences found from position 0 left to     *)
(* right, leaves the document with exactly those replaced, and adds one    *)
(* entry to the undo stack when there is at least one; with an empty       *)
(* needle or no occurrence it returns 0 and changes neither the document,  *)
(* the version, the selections nor the history.                            *)
C10_ReplaceAll ==
    [][(op' = "replace_all" /\ args'.query.case_sensitive) =>
          LET needle == args'.query.needle
              r == args'.replacement
          IN /\ ~panicked'
             /\ IF needle = <<>> \/ CountFrom(text, needle, 0) = 0
                THEN /\ ret' = 0
                     /\ UNCHANGED <<text, version, sels, undo, redo>>
                ELSE /\ ret' = CountFrom(text, needle, 0)
                     /\ text' = ReplacedFrom(text, needle, r, 0)
                     /\ Len(undo') = Len(undo) + 1]_vars

(* replace_all replaced the two occurrences of "aa" a scan of "aaaaa"      *)
(* finds, where "aa" occurs at four positions, in one undo entry above an  *)
(* older one.                                                              *)
C10_Witness ==
    /\ op = "replace_all" /\ ~panicked
    /\ args.query = SearchQuery(<<"a", "a">>, TRUE)
    /\ pre.text = <<"a", "a", "a", "a", "a">>
    /\ ret = 2 /\ Len(undo) = 2

(* The position, in the text with the replacements made, of the end of the *)
(* last replacement a scan of t from position i makes; out is the length   *)
(* of the output so far and last the end of the last replacement so far.   *)
RECURSIVE LastReplacementEnd(_, _, _, _, _, _)
LastReplacementEnd(t, needle, r, i, out, last) ==
    IF i + Len(needle) > Len(t) THEN last
    ELSE IF Slice(t, i, i + Len(needle)) = needle
         THEN LastReplacementEnd(t, needle, r, i + Len(needle),
                                 out + Len(r), out + Len(r))
         ELSE LastReplacementEnd(t, needle, r, i + 1, out + 1, last)

(* C11: after replace_all with at least one match the selection set is a   *)
(* single caret at the end, in the document after the replacement, of the  *)
(* replacement text of the last replaced match.                            *)
C11_ReplaceAllCaret ==
    (op = "replace_all" /\ ~panicked /\ args.query.case_sensitive /\ ret >= 1) =>
        sels = <<Caret(LastReplacementEnd(pre.text, args.query.needle,
                                          args.replacement, 0, 0, 0))>>

(* C12: for a single caret at position p > 0, Backspace followed by Undo   *)
(* leaves the document text as it was before the Backspace and the caret   *)
(* at p.                                                                   *)
C12_BackspaceUndo ==
    [][(/\ op = "Backspace" /\ IsSingleCaret(pre.sels)
        /\ pre.sels[1].head > 0 /\ pre.sels[1].head <= Len(pre.text)
        /\ op' = "undo" /\ ~panicked')
          => (text' = pre.text /\ sels' = pre.sels)]_vars

(***************************************************************************)
(* Line-wise key actions: comment toggling, indentation and cursor         *)
(* movement on documents of several lines.                                 *)
(***************************************************************************)
MaxLineSteps == 2

InitLines ==
    \/ EngineNew(<<"/", "/", SP, "a", NL, "/", "/", SP, "a">>, Zero64,
                 <<Caret(0), Caret(5)>>, <<>>, MaxLineSteps)
    \/ EngineNew(<<NL, NL>>, Zero64, <<[anchor |-> 0, head |-> 2]>>, <<>>,
                 MaxLineSteps)
    \/ EngineNew(<<"a", "a", "a", NL, "a", NL, "a">>, Zero64,
                 <<Caret(2)>>, <<>>, MaxLineSteps)
    \/ EngineNew(<<"a", "a", "a", NL, "a", NL, "a">>, Zero64,
                 <<[anchor |-> 1, head |-> 5]>>, <<>>, MaxLineSteps)

NextLines ==
    \/ KeyToggleComment \/ KeyIndent \/ KeyOutdent
    \/ KeyMove

SpecLines == InitLines /\ [][NextLines]_vars

(* The text with, at the start of every line of the set `lines`, the first *)
(* k characters removed and `ins` put in their place; the lines are taken  *)
(* from the last to the first so that earlier line starts stay valid.      *)
RECURSIVE EditLineStarts(_, _, _, _)
EditLineStarts(t, lines, k, ins) ==
    IF lines = {} THEN t
    ELSE LET l == MaxOf(lines)
             start == LineStartChar(t, l)
         IN EditLineStarts(Slice(t, 0, start) \o ins
                             \o Slice(t, Min(start + k, Len(t)), Len(t)),
                           lines \ {l}, k, ins)

AllLines(t) == 0..(LenLines(t) - 1)

CommentedLines(t) ==
    \A l \in AllLines(t) : LineHasPrefix([text |-> t], l, <<"/", "/", SP>>)

CaretOnEachLine(t, ss) ==
    /\ \A i \in 1..Len(ss) : IsCaret(ss[i]) /\ ss[i].head <= Len(t)
    /\ {CharToLine(t, ss[i].head) : i \in 1..Len(ss)} = AllLines(t)

(* C13: with a caret on each line of a document whose lines all start with *)
(* "// ", ToggleComment yields the lines without that prefix, and a second *)
(* ToggleComment directly after it gives back the original text.           *)
C13_ToggleCommentTwice ==
    [][/\ (op' = "ToggleComment" /\ ~panicked'
           /\ CommentedLines(text) /\ CaretOnEachLine(text, sels))
         => text' = EditLineStarts(text, AllLines(text), 3, <<>>)
       /\ (op = "ToggleComment" /\ op' = "ToggleComment" /\ ~panicked'
           /\ CommentedLines(pre.text) /\ CaretOnEachLine(pre.text, pre.sels))
         => text' = pre.text]_vars

(* The lines a selection set spans: for each selection every line from the *)
(* line of its start to the line of its end, the lines between included.   *)
SpannedLines(t, ss) ==
    UNION {CharToLine(t, SelStart(ss[i]))..CharToLine(t, SelEnd(ss[i])) :
             i \in 1..Len(ss)}

(* C14: Indent prepends exactly four spaces, once, to every line touched   *)
(* by a selection, the lines strictly between a selection's first and last *)
(* line included, and changes no other line.                               *)
C14_IndentSpannedLines ==
    (/\ op = "Indent" /\ ~panicked
     /\ \A i \in 1..Len(pre.sels) : SelEnd(pre.sels[i]) <= Len(pre.text))
       => text = EditLineStarts(pre.text, SpannedLines(pre.text, pre.sels), 0,
                                <<SP, SP, SP, SP>>)

(* C15: Move without extend turns every selection into a caret; for a      *)
(* non-empty selection (a, b), a < b, Move Left leaves the caret at a and  *)
(* Move Right leaves it at b.                                              *)
C15_MoveCollapses ==
    (op = "Move" /\ ~panicked /\ ~args.extend) =>
        /\ Len(sels) = Len(pre.sels)
        /\ \A i \in 1..Len(sels) :
              /\ IsCaret(sels[i])
              /\ (~IsCaret(pre.sels[i]) /\ args.movement = "Left")
                    => sels[i].head = SelStart(pre.sels[i])
              /\ (~IsCaret(pre.sels[i]) /\ args.movement = "Right")
                    => sels[i].head = SelEnd(pre.sels[i])

(* The number of characters of line l without its line break. *)
LineLen(t, l) == Len(LineText(t, l))

(* C16: for a caret on line L, column c, Move Down (L not the last line)   *)
(* puts it on line L+1 at column min(c, length of line L+1 without its     *)
(* newline), Move Up (L > 0) on line L-1 at column min(c, length of line   *)
(* L-1 without its newline); Up on the first line and Down on the last     *)
(* line leave the caret where it is.                                       *)
C16_VerticalMove ==
    (op = "Move" /\ ~panicked /\ ~args.extend
     /\ args.movement \in {"Up", "Down"}) =>
        \A i \in 1..Len(pre.sels) :
            (IsCaret(pre.sels[i]) /\ pre.sels[i].head <= Len(text)) =>
                LET lc == CharToLineCol(text, pre.sels[i].head)
                    target == IF args.movement = "Down" THEN lc.line + 1
                              ELSE lc.line - 1
                IN IF target < 0 \/ target >= LenLines(text)
                   THEN sels[i] = pre.sels[i]
                   ELSE sels[i] = Caret(LineStartChar(text, target)
                                          + Min(lc.col, LineLen(text, target)))

(* The texts of the selections, in set order, joined by line breaks. *)
RECURSIVE JoinedFrom(_, _, _)
JoinedFrom(t, ss, i) ==
    IF i > Len(ss) THEN <<>>
    ELSE (IF i > 1 THEN <<NL>> ELSE <<>>)
           \o Slice(t, SelStart(ss[i]), SelEnd(ss[i]))
           \o JoinedFrom(t, ss, i + 1)

ClipboardOf(t, ss) ==
    IF \A i \in 1..Len(ss) : IsCaret(ss[i]) THEN <<>>
    ELSE JoinedFrom(t, ss, 1)

(* The text without the characters covered by a selection. *)
RECURSIVE WithoutSelectedFrom(_, _, _)
WithoutSelectedFrom(t, ss, k) ==
    IF k > Len(t) THEN <<>>
    ELSE (IF \E i \in 1..Len(ss) : SelStart(ss[i]) < k /\ k <= SelEnd(ss[i])
          THEN <<>> ELSE <<t[k]>>)
           \o WithoutSelectedFrom(t, ss, k + 1)

SelectionsInText(t, ss) == \A i \in 1..Len(ss) : SelEnd(ss[i]) <= Len(t)

(* C17: Copy sets the clipboard to the texts of all selections, in set     *)
(* order, joined by "\n" (the empty string when all are carets) and leaves *)
(* text, version, selections and history unchanged.  Cut sets the          *)
(* clipboard to the same value and, when a selection is non-empty, deletes *)
(* the selected text as one transaction; with carets only it changes       *)
(* nothing in the buffer.                                                  *)
C17_CopyCut ==
    [][/\ (op' = "Copy" /\ SelectionsInText(text, sels)) =>
             /\ clipboard' = ClipboardOf(text, sels)
             /\ UNCHANGED <<text, version, sels, undo, redo>>
       /\ (op' = "Cut" /\ ~panicked' /\ SelectionsInText(text, sels)) =>
             /\ clipboard' = ClipboardOf(text, sels)
             /\ IF \E i \in 1..Len(sels) : ~IsCaret(sels[i])
                THEN /\ text' = WithoutSelectedFrom(text, sels, 1)
                     /\ Len(undo') = Len(undo) + 1
                     /\ redo' = <<>>
                ELSE UNCHANGED <<text, version, sels, undo, redo, impact>>
      ]_vars

(***************************************************************************)
(* Snapshots: snapshot and restore between edits, undo and redo.           *)
(***************************************************************************)
MaxRestoreSteps == 5

InitRestore ==
    EngineNew(<<"a", NL, "a">>, Zero64, <<Caret(3)>>, <<>>, MaxRestoreSteps)

NextRestore ==
    \/ DoSnapshot \/ DoRestore
    \/ DoInsertText \/ KeyBackspace
    \/ Undo \/ Redo

SpecRestore == InitRestore /\ [][NextRestore]_vars

(* C18: restore(s) makes the text and the version equal to those captured  *)
(* when s was taken, whatever edits, undos and redos happened in between,  *)
(* sets the selections to a single caret at 0, empties the undo and redo   *)
(* stacks and clears last_edit_impact.                                     *)
C18_RestoreResets ==
    op = "restore" =>
        /\ text = snap.rope
        /\ version = snap.version
        /\ sels = <<Caret(0)>>
        /\ undo = <<>>
        /\ redo = <<>>
        /\ impact = NoImpact

C18_Witness ==
    /\ op = "restore"
    /\ text # pre.text
    /\ pre.sels # <<Caret(0)>>
    /\ pre.undoLen > 0
    /\ pre.redoLen > 0

(***************************************************************************)
(* Rendering with a layout chosen by the caller: soft wrap, the wrap       *)
(* width and the visible lines.                                            *)
(***************************************************************************)
MaxLayoutSteps == 5

InitLayout ==
    \E ss \in {<<Caret(5)>>,
               <<Caret(0), Caret(5)>>,
               <<[anchor |-> 1, head |-> 5]>>,
               <<Caret(3), [anchor |-> 0, head |-> 3]>>} :
        EngineNew(<<"a", "a", "a", NL, "a">>, Zero64, ss, <<>>, MaxLayoutSteps)

NextLayout ==
    \/ SetLayout
    \/ DoViewModel
    \/ DoInsertText \/ KeyMoveLeftRight

SpecLayout == InitLayout /\ [][NextLayout]_vars

(* C19: in every view model, with or without soft wrap, each caret column  *)
(* c of a visual line satisfies 0 <= c <= number of characters of the      *)
(* segment text, and each selection span satisfies                         *)
(* 0 <= start_col < end_col <= number of characters of the segment text.   *)
C19_ColumnsInSegment ==
    \A k \in 1..Len(vm) :
        /\ \A i \in 1..Len(vm[k].cursors) :
              0 <= vm[k].cursors[i] /\ vm[k].cursors[i] <= Len(vm[k].text)
        /\ \A i \in 1..Len(vm[k].selections) :
              /\ 0 <= vm[k].selections[i].start_col
              /\ vm[k].selections[i].start_col < vm[k].selections[i].end_col
              /\ vm[k].selections[i].end_col <= Len(vm[k].text)

C19_Witness ==
    /\ softWrap
    /\ \E k \in 1..Len(vm) :
          /\ vm[k].wrap_col_offset > 0
          /\ vm[k].cursors # <<>>
          /\ vm[k].selections # <<>>

MaxSearchSteps == 2

InitSearch ==
    \E t \in {<<"e2", "a", "b", "a">>, <<"a", "a", "a">>} :
        EngineNew(t, Zero64, DefaultSelectionSet, <<>>, MaxSearchSteps)

NextSearch ==
    \/ DoFindNext
    \/ DoInsertText \/ KeyMoveLeftRight

SpecSearch == InitSearch /\ [][NextSearch]_vars

(* The character positions at which the needle occurs in the text. *)
Occurrences(t, needle) ==
    {i \in 0..Len(t) : /\ i + Len(needle) <= Len(t)
                       /\ Slice(t, i, i + Len(needle)) = needle}

(* C21: find_next with a non-empty case-sensitive needle returns, for      *)
(* Forward, the occurrence with the smallest start_char >= from_char and,  *)
(* for Backward, the occurrence with the largest start_char whose          *)
(* end_char <= from_char, or None when there is none; a returned match has *)
(* end_char - start_char = length of the needle and end_char <= len_chars; *)
(* an empty needle yields None; find_next never changes the engine state,  *)
(* also when from_char > len_chars.                                        *)
C21_FindNext ==
    [][op' = "find_next" =>
         LET needle == args'.query.needle
             from == args'.from_char
             cands == IF args'.direction = "Forward"
                      THEN {i \in Occurrences(text, needle) : i >= from}
                      ELSE {i \in Occurrences(text, needle) :
                                i + Len(needle) <= from}
             best == IF args'.direction = "Forward" THEN MinOf(cands)
                     ELSE MaxOf(cands)
         IN /\ needle = <<>> => ret' = None
            /\ (needle # <<>> /\ args'.query.case_sensitive) =>
                  IF cands = {} THEN ret' = None
                  ELSE /\ ret' = SearchMatch(best, best + Len(needle))
                       /\ ret'.end_char <= LenChars(text)
            /\ ~panicked'
            /\ UNCHANGED <<text, version, sels, undo, redo, impact, cache,
                           cachedVersion, cachedLineCount, viewport, softWrap>>
      ]_vars

C21_Witness ==
    /\ op = "find_next"
    /\ args.direction = "Backward"
    /\ args.query.case_sensitive
    /\ ret # None
    /\ \E i \in 1..ret.start_char : text[i] = "e2"
    /\ \E j \in Occurrences(text, args.query.needle) : j < ret.start_char

(***************************************************************************)
(* Syntax highlighting: set_filename between edits and pulls.              *)
(***************************************************************************)
MaxHighlightSteps == 3

InitHighlight ==
    EngineNew(<<"a", NL, "a">>, Zero64, DefaultSelectionSet, <<>>,
              MaxHighlightSteps)

NextHighlight ==
    \/ DoSetFilename
    \/ DoViewModel
    \/ DoInsertText

SpecHighlight == InitHighlight /\ [][NextHighlight]_vars

RegisteredExtensions == {"rs", "js", "jsx", "mjs"}

(* set_filename(name) was called with an unregistered extension, or the    *)
(* configuration of the highlighter failed.                                *)
HighlightingFailed(a, r) ==
    \/ a.filename[Len(a.filename)] \notin RegisteredExtensions
    \/ ~r.configured

(* C22: after set_filename(name), if the extension of name is not          *)
(* registered or configuring the highlighter fails, highlighting is        *)
(* disabled: the engine holds no highlighter and every VisualLine has      *)
(* empty highlight spans, also when an earlier set_filename had configured *)
(* a highlighter; set_filename never changes text, version, selections or  *)
(* history.                                                                *)
C22_SetFilenameDisables ==
    [][/\ op' = "set_filename" =>
             /\ HighlightingFailed(args', ret') => highlighter' = None
             /\ UNCHANGED <<text, version, sels, undo, redo>>
       /\ (op = "set_filename" /\ HighlightingFailed(args, ret)
           /\ op' = "view_model") =>
             \A k \in 1..Len(vm') : vm'[k].highlights = <<>>]_vars

(***************************************************************************)
(* The recent files of the workspace settings.                             *)
(***************************************************************************)
InitRecent ==
    EngineNew(<<>>, Zero64, DefaultSelectionSet, <<>>, MaxRecentCalls)

NextRecent == DoAddRecentFile

SpecRecent == InitRecent /\ [][NextRecent]_vars

(* The paths of a sequence of additions, the latest addition first, each   *)
(* path once, at the place of its latest addition.                         *)
RECURSIVE LatestFirst(_)
LatestFirst(seq) ==
    IF seq = <<>> THEN <<>>
    ELSE LET last == seq[Len(seq)]
             before == SubSeq(seq, 1, Len(seq) - 1)
         IN <<last>> \o SelectSeq(LatestFirst(before), LAMBDA p : p # last)

(* C23: after any sequence of add_recent_file calls, recent_files holds no *)
(* path twice, has at most 20 entries, has the most recently added path at *)
(* index 0 and the remaining paths in the order of their latest addition;  *)
(* adding a path already in the list moves it to the front without         *)
(* changing the length.                                                    *)
C23_RecentFiles ==
    [][/\ \A i, j \in 1..Len(recent_files') :
             i # j => recent_files'[i] # recent_files'[j]
       /\ Len(recent_files') <= 20
       /\ recent_files' =
             SubSeq(LatestFirst(addedPaths'), 1, Len(recent_files'))
       /\ (op' = "add_recent_file" /\ args'.path \in Range(recent_files)) =>
             /\ recent_files'[1] = args'.path
             /\ Len(recent_files') = Len(recent_files)
       /\ op' = "add_recent_file" => recent_files'[1] = args'.path
      ]_vars

C23_Witness ==
    /\ op = "add_recent_file"
    /\ Len(recent_files) = 20
    /\ Cardinality(Range(addedPaths)) > 20
    /\ args.path \in Range(SubSeq(addedPaths, 1, Len(addedPaths) - 1))
    /\ args.path # addedPaths[Len(addedPaths) - 1]

(***************************************************************************)
(* The event bridge: senders, the receiving loop and the clock.            *)
(***************************************************************************)
InitBridge ==
    EngineNew(<<>>, Zero64, DefaultSelectionSet, <<>>, MaxBridgeSteps)

NextBridge == BridgeSend \/ BridgeRecv \/ Tick

SpecBridge == InitBridge /\ [][NextBridge]_vars

IntervalOf(kind) ==
    IF kind = "CursorMoved" THEN 50 ELSE 16

(* The delivery times of the events of a kind delivered so far. *)
DeliveredAt(kind) ==
    {delivered[i].at : i \in {j \in 1..Len(delivered) : delivered[j].kind = kind}}

(* C24: a CursorMoved (resp. EditorContentChanged) event taken from the    *)
(* channel is delivered only if no event of that kind was delivered before *)
(* or at least cursor_update_interval (resp. editor_repaint_interval) has  *)
(* elapsed since the last delivered one, so of a burst received within one *)
(* interval only the first is delivered; events of every other kind are    *)
(* always delivered, and delivered events keep their send order.           *)
C24_Throttling ==
    [][op' = "recv" =>
         LET kind == args'.kind
             emitted == /\ Len(delivered') = Len(delivered) + 1
                        /\ delivered'[Len(delivered')].id = args'.id
                        /\ delivered'[Len(delivered')].kind = kind
         IN /\ emitted \/ delivered' = delivered
            /\ (kind \in {"CursorMoved", "EditorContentChanged"} /\ emitted) =>
                  \/ DeliveredAt(kind) = {}
                  \/ now - MaxOf(DeliveredAt(kind)) >= IntervalOf(kind)
            /\ kind \notin {"CursorMoved", "EditorContentChanged"} => emitted
            /\ \A i, j \in 1..Len(delivered') :
                  i < j => delivered'[i].id < delivered'[j].id
      ]_vars

C24_Witness ==
    /\ op = "recv"
    /\ args.kind = "StatusUpdate"
    /\ Len(delivered) = 2
    /\ delivered[1].kind = "CursorMoved"
    /\ delivered[2].id = 3
    /\ channel = <<>>

(* The text the last operation passed to apply_text_to_selections. *)
InsertedByOp ==
    CASE op = "insert_text" -> args.text
      [] op = "Newline" -> <<NL>>
      [] op = "Paste" -> clipboard
      [] OTHER -> <<>>

(* C25: after apply_text_to_selections(s) with a non-empty s and two or    *)
(* more carets (insert_text, Newline, Paste), every resulting caret stands *)
(* immediately after the copy of s inserted for it: the char_count(s)      *)
(* characters before each caret equal s.                                   *)
C25_CaretsAfterInsertedText ==
    (/\ op \in {"insert_text", "Newline", "Paste"} /\ ~panicked
     /\ InsertedByOp # <<>>
     /\ Len(pre.sels) >= 2
     /\ \A i \in 1..Len(pre.sels) :
           IsCaret(pre.sels[i]) /\ pre.sels[i].head <= Len(pre.text)
     /\ \A i, j \in 1..Len(pre.sels) : i # j => pre.sels[i] # pre.sels[j])
       => /\ Len(sels) = Len(pre.sels)
          /\ \A i \in 1..Len(sels) :
                /\ IsCaret(sels[i])
                /\ sels[i].head >= Len(InsertedByOp)
                /\ sels[i].head <= Len(text)
                /\ Slice(text, sels[i].head - Len(InsertedByOp), sels[i].head)
                     = InsertedByOp

(* while buffer.undo() {}: undo until the undo stack is empty. *)
RECURSIVE UndoAll(_)
UndoAll(b) ==
    IF b.undo = <<>> \/ b.panicked THEN b ELSE UndoAll(BufferUndo(b))

(* C26: after any sequence of editing key actions, insert_text,            *)
(* replace_range and replace_all on a fresh engine (no restore), calling   *)
(* buffer.undo() until it returns false leaves the initial text: no        *)
(* operation changes the text that undoing everything yields, which at the *)
(* start (empty undo stack) is the initial text.                           *)
C26_UndoAllGivesInitialText ==
    [][~panicked' =>
          /\ ~UndoAll(Buf').panicked
          /\ UndoAll(Buf').text = UndoAll(Buf).text]_vars

(* Pulls of the view model around snapshot and restore. *)
MaxStaleSteps == 6

InitStale ==
    EngineNew(<<"a", NL, "a">>, Zero64, DefaultSelectionSet, <<>>, MaxStaleSteps)

NextStale == DoSnapshot \/ DoRestore \/ DoInsertText \/ DoViewModel

SpecStale == InitStale /\ [][NextStale]_vars

(* C27: after buffer.restore(snapshot), and after any edits that follow    *)
(* it, the next view_model() shows for every visible line the text of that *)
(* line in the current document, also when an earlier pull cached lines of *)
(* another text at a version the document reaches again after the restore. *)
C27_ViewAfterRestore ==
    [][(sinceRestore /\ op' = "view_model" /\ ~panicked' /\ ~softWrap')
          => \A i \in DOMAIN vm' :
                vm'[i].text = LineText(text', vm'[i].line_idx)]_vars

OnlyCarets(ss) == \A i \in 1..Len(ss) : IsCaret(ss[i])

(* The characters the claim has Backspace and Delete remove with carets    *)
(* only: the one before each caret at p > 0, the one at each caret at      *)
(* p < len_chars.                                                          *)
CharsBeforeCarets(t, ss) ==
    [i \in 1..Len(ss) |->
        IF ss[i].head > 0 THEN [anchor |-> ss[i].head - 1, head |-> ss[i].head]
        ELSE ss[i]]
CharsAtCarets(t, ss) ==
    [i \in 1..Len(ss) |->
        IF ss[i].head < Len(t) THEN [anchor |-> ss[i].head, head |-> ss[i].head + 1]
        ELSE ss[i]]

DeletedAsOneTransaction ==
    /\ Len(undo') = Len(undo) + 1
    /\ SubSeq(undo', 1, Len(undo)) = undo
    /\ undo'[Len(undo')].kind = "Delete"

RemovesExactly(ranges) ==
    /\ text' = WithoutSelectedFrom(text, ranges, 1)
    /\ IF OnlyCarets(ranges)
       THEN text' = text /\ version' = version /\ undo' = undo
       ELSE DeletedAsOneTransaction

(* C28: with carets only, Backspace removes the character before each      *)
(* caret at p > 0 and Delete the character at each caret at p < len_chars, *)
(* as one transaction of kind Delete; when no caret has such a character   *)
(* (a lone caret at 0, or at len_chars) text, version and undo stack are   *)
(* unchanged; when a selection is a range, both delete the selected ranges.*)
C28_BackspaceDelete ==
    [][(op' \in {"Backspace", "Delete"} /\ ~panicked'
          /\ SelectionsInText(text, sels))
         => IF ~OnlyCarets(sels) THEN RemovesExactly(sels)
            ELSE IF op' = "Backspace"
                 THEN RemovesExactly(CharsBeforeCarets(text, sels))
                 ELSE RemovesExactly(CharsAtCarets(text, sels))]_vars

(* DeleteLine and DuplicateLine, with Backspace to empty lines and the     *)
(* document.                                                               *)
MaxLineOpSteps == 3

InitLineOps ==
    \E t \in InitTexts :
        \E ss \in OneRange(Len(t)) \cup TwoCarets(Len(t)) :
            EngineNew(t, Zero64, ss, <<>>, MaxLineOpSteps)

NextLineOps == KeyDeleteLine \/ KeyDuplicateLine \/ KeyBackspace \/ Undo

SpecLineOps == InitLineOps /\ [][NextLineOps]_vars

(* The lines that hold a caret head, and the text made of the other lines, *)
(* each with its line break.                                               *)
HeadLines(t, ss) == {CharToLine(t, ss[i].head) : i \in 1..Len(ss)}
LinesExcept(t, lines) ==
    ConcatAll([l \in 1..LenLines(t) |->
                  IF (l - 1) \in lines THEN <<>> ELSE RopeLine(t, l - 1)])

DeletesHeadLines ==
    /\ text' = LinesExcept(text, HeadLines(text, sels))
    /\ Len(undo') = Len(undo) + 1
    /\ SubSeq(undo', 1, Len(undo)) = undo
    /\ sels' = <<Caret(LineStartChar(text, MinOf(HeadLines(text, sels))))>>
    /\ sels'[1].head <= Len(text')

(* C29 as stated: DeleteLine with caret heads on k distinct lines deletes  *)
(* each of those lines once, with its trailing newline, so that the lines  *)
(* without a caret remain in their order; it records one transaction and   *)
(* leaves a single caret at the start of the range deleted last (that of   *)
(* the first of those lines), within [0, len_chars].                       *)
C29_DeleteLineAlwaysRecords ==
    [][(op' = "DeleteLine" /\ ~panicked' /\ SelectionsInText(text, sels))
          => DeletesHeadLines]_vars

(* C29, amended: that holds when one of those lines is not empty, and the  *)
(* transaction is of kind Delete; when every caret head is on the empty    *)
(* last line, DeleteLine changes nothing: text, version, selections and    *)
(* both history stacks stay as they are.                                   *)
C29_DeleteLine ==
    [][(op' = "DeleteLine" /\ SelectionsInText(text, sels))
          => /\ ~panicked'
             /\ IF \E l \in HeadLines(text, sels) :
                      LineStartChar(text, l) < LineEndChar(text, l)
                THEN /\ DeletesHeadLines
                     /\ undo'[Len(undo')].kind = "Delete"
                     /\ Len(undo'[Len(undo')].edits)
                          = Cardinality({l \in HeadLines(text, sels) :
                               LineStartChar(text, l) < LineEndChar(text, l)})
                ELSE /\ text' = text /\ version' = version /\ sels' = sels
                     /\ undo' = undo /\ redo' = redo]_vars

(* DeleteLine with caret heads on two lines has removed both, and in       *)
(* another run DeleteLine on the empty last line has changed nothing.      *)
C29_Witness ==
    /\ op = "DeleteLine" /\ ~panicked
    /\ Cardinality(HeadLines(pre.text, pre.sels)) = 2
    /\ pre.text = <<"a", NL, "a">> /\ text = <<>>
    /\ rec = "pushed"

C29_WitnessNoOp ==
    /\ op = "DeleteLine" /\ ~panicked
    /\ pre.text = <<"a", SP, "a", NL>> /\ text = pre.text
    /\ HeadLines(pre.text, pre.sels) = {1}
    /\ rec = "none" /\ sels = pre.sels

(* The number of lines with a caret head above line l. *)
HeadLinesAbove(t, ss, l) == Cardinality({h \in HeadLines(t, ss) : h < l})

(* C30: DuplicateLine with caret heads on k distinct lines makes each of   *)
(* those lines appear twice in succession (several carets on one line      *)
(* duplicate it once), raises the line count by exactly k, leaves all      *)
(* other lines unchanged, keeps the terminator (the second copy ends as    *)
(* the line did: a last line without newline stays without one) and        *)
(* records one transaction.                                                *)
C30_DuplicateLine ==
    [][(op' = "DuplicateLine" /\ SelectionsInText(text, sels))
          => /\ ~panicked'
             /\ LenLines(text') =
                   LenLines(text) + Cardinality(HeadLines(text, sels))
             /\ \A l \in 0..(LenLines(text) - 1) :
                   LET at == l + HeadLinesAbove(text, sels, l)
                   IN IF l \in HeadLines(text, sels)
                      THEN /\ RopeLine(text', at) = LineText(text, l) \o <<NL>>
                           /\ RopeLine(text', at + 1) = RopeLine(text, l)
                      ELSE RopeLine(text', at) = RopeLine(text, l)
             /\ Len(undo') = Len(undo) + 1
             /\ SubSeq(undo', 1, Len(undo)) = undo]_vars

(* DuplicateLine with caret heads on both lines of "a\na" has doubled      *)
(* both lines.                                                             *)
C30_Witness ==
    /\ op = "DuplicateLine" /\ ~panicked
    /\ pre.text = <<"a", NL, "a">>
    /\ Cardinality(HeadLines(pre.text, pre.sels)) = 2
    /\ text = <<"a", NL, "a", NL, "a", NL, "a">>
    /\ rec = "pushed"

(* Indent and Outdent, with undo. *)
MaxIndentSteps == 2

IndentTexts == {<<NL>>, <<NL, SP, SP, SP, SP, NL>>,
                <<SP, SP, SP, SP, "a", NL, "a">>}

InitIndent ==
    \E t \in IndentTexts :
        \E ss \in OneRange(Len(t)) \cup TwoCarets(Len(t)) :
            EngineNew(t, Zero64, ss, <<>>, MaxIndentSteps)

NextIndent == KeyIndent \/ KeyOutdent \/ Undo

SpecIndent == InitIndent /\ [][NextIndent]_vars

(* The lines touched by a selection that begin with four spaces. *)
IndentedLines(t, lines) ==
    {l \in lines : LineHasPrefix([text |-> t], l, <<SP, SP, SP, SP>>)}

(* C31: Outdent removes exactly four leading spaces from each line touched *)
(* by a selection that begins with four spaces and leaves every other line *)
(* unchanged; when no touched line begins with four spaces, nothing is     *)
(* recorded and text, version and selections are unchanged.                *)
C31_OutdentTouchedLines ==
    [][(op' = "Outdent" /\ ~panicked' /\ SelectionsInText(text, sels))
          => LET lines == IndentedLines(text, SpannedLines(text, sels))
             IN /\ text' = EditLineStarts(text, lines, 4, <<>>)
                /\ lines = {} => /\ undo' = undo /\ version' = version
                                 /\ sels' = sels]_vars

(* The ranges the claim has DeleteWordBackward / DeleteWordForward delete  *)
(* with carets only.                                                       *)
WordsBeforeCarets(t, ss) ==
    [i \in 1..Len(ss) |->
        [anchor |-> FindWordLeft(t, ss[i].head), head |-> ss[i].head]]
WordsAfterCarets(t, ss) ==
    [i \in 1..Len(ss) |->
        [anchor |-> ss[i].head, head |-> FindWordRight(t, ss[i].head)]]

DeletesWords(ranges) ==
    /\ text' = WithoutSelectedFrom(text, ranges, 1)
    /\ ~OnlyCarets(ranges) =>
          /\ DeletedAsOneTransaction
          /\ Len(sels') = 1 /\ IsCaret(sels'[1])
          /\ sels'[1].head <= Len(text')

(* C32: with carets only, DeleteWordBackward deletes [find_word_left(c),   *)
(* c) and DeleteWordForward deletes [c, find_word_right(c)) for every      *)
(* caret c, as one transaction of kind Delete that leaves a single caret   *)
(* within [0, len_chars]; when a selection is a range, the selected ranges *)
(* are deleted instead.                                                    *)
C32_DeleteWord ==
    [][(op' \in {"DeleteWordBackward", "DeleteWordForward"} /\ ~panicked'
          /\ SelectionsInText(text, sels))
         => IF ~OnlyCarets(sels)
            THEN text' = WithoutSelectedFrom(text, sels, 1)
            ELSE IF op' = "DeleteWordBackward"
                 THEN DeletesWords(WordsBeforeCarets(text, sels))
                 ELSE DeletesWords(WordsAfterCarets(text, sels))]_vars

(* Undo and redo between pulls of the view model, with snapshot and        *)
(* restore.                                                                *)
MaxUndoViewSteps == 7

InitUndoView ==
    EngineNew(<<"a", NL, "a">>, Zero64, DefaultSelectionSet, <<>>,
              MaxUndoViewSteps)

NextUndoView ==
    \/ DoSnapshot \/ DoRestore
    \/ DoInsertText
    \/ Undo \/ Redo
    \/ DoViewModel

SpecUndoView == InitUndoView /\ [][NextUndoView]_vars

(* C33: a buffer.undo() or buffer.redo() that returns true sets            *)
(* last_edit_impact to absent, and the view_model() pull that follows it   *)
(* empties the whole line cache before it reads an entry.                  *)
C33_UndoRedoEmptiesCache ==
    (op \in {"undo", "redo"} /\ ~panicked /\ ret = TRUE)
       => /\ impact = NoImpact
          /\ Evict(text, version, impact, CacheState).cache = EmptyCache

(* C34: a successful undo() moves exactly the top transaction of the undo  *)
(* stack, unchanged, onto the redo stack, and a successful redo() moves    *)
(* exactly the top of the redo stack, unchanged, onto the undo stack; the  *)
(* sum of the two stack lengths is unchanged by both, and neither changes  *)
(* the selection set.                                                      *)
C34_UndoRedoMoveTop ==
    [][/\ (op' = "undo" /\ ~panicked' /\ ret' = TRUE)
            => /\ undo # <<>>
               /\ undo' = SubSeq(undo, 1, Len(undo) - 1)
               /\ redo' = Append(redo, undo[Len(undo)])
               /\ Len(undo') + Len(redo') = Len(undo) + Len(redo)
               /\ sels' = sels
       /\ (op' = "redo" /\ ~panicked' /\ ret' = TRUE)
            => /\ redo # <<>>
               /\ redo' = SubSeq(redo, 1, Len(redo) - 1)
               /\ undo' = Append(undo, redo[Len(redo)])
               /\ Len(undo') + Len(redo') = Len(undo) + Len(redo)
               /\ sels' = sels]_vars

(* A transaction of two edits has been undone and then redone. *)
C34_Witness ==
    /\ op = "redo" /\ ~panicked /\ ret = TRUE
    /\ pre.redoLen = 1 /\ redo = <<>>
    /\ undo # <<>> /\ Len(undo[Len(undo)].edits) = 2

(* C35: every Move{movement, extend} leaves text, version, both history    *)
(* stacks and last_edit_impact unchanged and keeps the number and order of *)
(* the selections; with extend every selection keeps its anchor and only   *)
(* its head moves, the new head being computed from the current head.      *)
C35_MoveFrame ==
    [][(op' = "Move" /\ ~panicked')
          => /\ UNCHANGED <<text, version, undo, redo, impact>>
             /\ Len(sels') = Len(sels)
             /\ \A i \in 1..Len(sels) :
                   IF args'.extend
                   THEN /\ sels'[i].anchor = sels[i].anchor
                        /\ sels'[i].head =
                              NewHead(text, sels[i].head, args'.movement)
                   ELSE /\ IsCaret(sels'[i])
                        /\ sels'[i].head \in
                              {NewHead(text, SelStart(sels[i]), args'.movement),
                               NewHead(text, SelEnd(sels[i]), args'.movement)}]_vars

(* Move{Left, extend} has moved the head of a forward selection by one    *)
(* and kept its anchor.                                                    *)
C35_Witness ==
    /\ op = "Move" /\ ~panicked
    /\ args.extend /\ args.movement = "Left"
    /\ pre.sels = <<[anchor |-> 1, head |-> 5]>>
    /\ sels = <<[anchor |-> 1, head |-> 4]>>

(* C36: Move{WordRight} from a caret at p < len_chars yields a position    *)
(* greater than p, Move{WordLeft} from a caret at p > 0 yields a position  *)
(* smaller than p (so repeating them reaches len_chars and 0), and both    *)
(* yield a position within [0, len_chars].                                 *)
C36_WordMoveProgress ==
    [][(op' = "Move" /\ ~panicked' /\ ~args'.extend
          /\ args'.movement \in {"WordLeft", "WordRight"}
          /\ OnlyCarets(sels) /\ SelectionsInText(text, sels))
         => \A i \in 1..Len(sels) :
               /\ sels'[i].head <= Len(text)
               /\ (args'.movement = "WordRight" /\ sels[i].head < Len(text))
                     => sels'[i].head > sels[i].head
               /\ (args'.movement = "WordLeft" /\ sels[i].head > 0)
                     => sels'[i].head < sels[i].head]_vars

(* C37: Move{LineEnd, false} leaves a caret on the line it was on, after   *)
(* that line's last character and before its newline, and a second LineEnd *)
(* does not move it; Move{LineStart, false} likewise keeps the line and is *)
(* idempotent.                                                             *)
C37_LineEndLineStart ==
    [][(op' = "Move" /\ ~panicked' /\ ~args'.extend
          /\ args'.movement \in {"LineStart", "LineEnd"}
          /\ OnlyCarets(sels) /\ SelectionsInText(text, sels))
         => \A i \in 1..Len(sels) :
               LET line == CharToLine(text, sels[i].head)
               IN /\ CharToLine(text, sels'[i].head) = line
                  /\ sels'[i].head =
                        IF args'.movement = "LineStart"
                        THEN LineStartChar(text, line)
                        ELSE LineStartChar(text, line) + LineLen(text, line)
                  /\ NewHead(text, sels'[i].head, args'.movement)
                        = sels'[i].head]_vars

InsertOps == {"insert_text", "Newline", "Paste"}

(* The last operation inserted two or more characters at a single caret    *)
(* and pushed a transaction for them.                                      *)
MultiCharInsertDone ==
    /\ op \in InsertOps /\ ~panicked
    /\ Len(InsertedByOp) >= 2
    /\ IsSingleCaret(pre.sels) /\ pre.sels[1].head <= Len(pre.text)
    /\ rec = "pushed"

(* C38 as stated: an insert of two or more characters at a caret stays an  *)
(* undo step of its own: a character typed right after it starts a new     *)
(* entry and leaves the entry of the multi-character insert as it is, so   *)
(* that one undo removes the typed character only.                         *)
C38_MultiCharEntryStays ==
    [][(MultiCharInsertDone /\ op' \in InsertOps /\ ~panicked'
          /\ Len(InsertedByOp') = 1)
         => /\ Len(undo') = Len(undo) + 1
            /\ undo'[Len(undo)] = undo[Len(undo)]]_vars

(* C38, amended: what an undo entry absorbs is always a one-character      *)
(* insert, appended to the text of the entry on top, and an insert of two  *)
(* or more characters is always pushed as an entry of its own; but the     *)
(* entry of a multi-character insert at a single caret absorbs a character *)
(* typed right after it, and one undo then removes the typed character     *)
(* together with the multi-character text.                                 *)
C38_AbsorbsOneCharacter ==
    [][/\ rec' = "coalesced"
            => /\ op' \in InsertOps /\ Len(InsertedByOp') = 1
               /\ undo # <<>>
               /\ undo' = [undo EXCEPT ![Len(undo)].edits[1].inserted =
                              @ \o InsertedByOp']
       /\ (op' \in InsertOps /\ ~panicked' /\ Len(InsertedByOp') >= 2)
            => /\ Len(undo') = Len(undo) + 1
               /\ SubSeq(undo', 1, Len(undo)) = undo
       /\ (MultiCharInsertDone /\ op' \in InsertOps /\ ~panicked'
             /\ Len(InsertedByOp') = 1)
            => /\ rec' = "coalesced"
               /\ undo'[Len(undo')].edits[1].inserted
                     = InsertedByOp \o InsertedByOp'
       /\ (op \in InsertOps /\ rec = "coalesced" /\ op' = "undo" /\ ~panicked')
            => text' = WithoutBefore(text, sels[1].head,
                          Len(undo[Len(undo)].edits[1].inserted))]_vars

(* A two-character paste, then a typed character that its entry absorbed,  *)
(* then one undo that removed all three characters.                        *)
C38_Witness ==
    /\ op = "undo" /\ ret = TRUE /\ ~panicked
    /\ pre.burst.n = 1 /\ pre.burst.absorbed = 2
    /\ Len(pre.text) = Len(text) + 3
    /\ undo = <<>> /\ Len(redo) = 1
    /\ redo[1].edits[1].inserted = <<"b", "b", "a">>

(* C39: for any selection set, Indent immediately followed by Outdent      *)
(* leaves the document text equal to the text before the Indent, and the   *)
(* primary head within [0, len_chars].                                     *)
C39_IndentOutdentRoundTrip ==
    [][(op = "Indent" /\ ~panicked /\ op' = "Outdent")
         => /\ ~panicked'
            /\ text' = pre.text
            /\ sels'[1].head <= Len(text')]_vars

(* The visual lines of the last view model that report a cursor standing   *)
(* for the document position p.                                            *)
VisualLinesReporting(p) ==
    {k \in 1..Len(vm) :
        \E j \in 1..Len(vm[k].cursors) :
            LineStartChar(text, vm[k].line_idx) + vm[k].wrap_col_offset
              + vm[k].cursors[j] = p}

LineInWindow(l) ==
    LET first == Min(viewport.first_line, LenLines(text))
    IN first <= l /\ l < Min(first + viewport.max_lines, LenLines(text))

(* C40: in every ViewModel, with soft wrap on or off, each caret whose     *)
(* position is at most len_chars and whose source line is inside the       *)
(* visible window is reported in the cursors list of exactly one           *)
(* VisualLine, the one whose segment contains the caret's column.          *)
C40_CaretInOneVisualLine ==
    (op = "view_model" /\ ~panicked)
      => \A i \in 1..Len(sels) :
            (/\ IsCaret(sels[i]) /\ sels[i].head <= Len(text)
             /\ LineInWindow(CharToLine(text, sels[i].head)))
              => /\ Cardinality(VisualLinesReporting(sels[i].head)) = 1
                 /\ \A k \in VisualLinesReporting(sels[i].head) :
                       vm[k].line_idx = CharToLine(text, sels[i].head)

====
